---- MODULE Spec2Model ----
(***************************************************************************)
(* A model of the transcription pipeline (batch_processor.py), of the LLM  *)
(* gateway (llm_processor.py) and of the segment/speaker alignment inside  *)
(* transcribe_audio_with_whisper.                                          *)
(*                                                                         *)
(* Seven specifications share the module:                                  *)
(*   SpecLLM    the gateway: construction, then calls of process           *)
(*   SpecBatch  main(): the item loop over process_video and its stages    *)
(*   SpecMain   main() from the loading of the transcription engine on,    *)
(*              over videos with given base names                          *)
(*   SpecAlign  the alignment of whisper segments with diarization turns   *)
(*   SpecSearch the search engine (search_engine.py) over folders of       *)
(*              transcripts written by transcript_formatter.py             *)
(*   SpecQA     semantic search and question answering of that engine      *)
(*   SpecCli    the search command line (search_handler.py)                *)
(* Each specification leaves the other parts' variables at their idle      *)
(* values.                                                                 *)
(***************************************************************************)
EXTENDS Integers, Sequences, FiniteSets, TLC

VARIABLES
    \* ---- LLM gateway (LLMProcessor) ----
    llm,            \* the LLMProcessor object: provider, api_key, model, client
    l_init,         \* the arguments __init__ was called with, and the library's behaviour
    l_pc,           \* "new" before __init__, "ready" after it, "raised" if a call raised
    l_ret,          \* what the last call of process did
    l_calls,        \* calls of process made on this gateway (bounded)
    \* ---- batch run (main) ----
    video_files,    \* the input list: per path, whether the file exists
    output_format,  \* --format: "txt", "md" or "both"
    diarization_pipeline, \* TRUE when load_diarization_pipeline returned a pipeline
    llm_processor,  \* the gateway main() built, or NoProcessor
    b_pc,           \* position of the one thread of control
    index,          \* enumerate(video_files, 1): the item at hand
    total, successful, failed,
    exit_code,      \* sys.exit's argument, NoExit until the run ends
    files,          \* files of the output folder: <<item, kind>>
    items,          \* per visited item: what was started, what went wrong, outcome
    propagating,    \* the exception class that unwound main(), "" if none
    torch,          \* torch.cuda.is_available(), torch.backends.mps.is_available()
    load_attempts,  \* the calls of whisper.load_model: device and outcome
    whisper_model,  \* the device the model is loaded on, None before that
    \* ---- alignment (transcribe_audio_with_whisper, lines 155-201) ----
    whisper_segments, \* result['segments']
    turns,          \* what diarization.itertracks yields
    diar,           \* the diarization engine: whether a pipeline is loaded, and after
                    \* how many turns it raised (NoRaise while it has not)
    a_pc,
    turn_i,         \* turns consumed so far
    segments_with_speakers,
    \* ---- search engine (TranscriptSearchEngine) ----
    folders,        \* the folders that exist, each with its files as listed
    embeddings_available,
    transcripts,    \* self.transcripts
    s_pc,
    indexed,        \* the last call of index_transcripts: its folder,
                    \* unique_files, what went wrong with each file, and
                    \* whether the index held records when it was called
    searched,       \* the call of keyword_search and what it returned
    engine_llm,     \* self.llm_processor
    semantic,       \* the call of semantic_search: what the models yielded,
                    \* the strategy it took and what it returned
    asked,          \* the call of ask_question and what it returned
    \* ---- search command line (search_handler.py) ----
    cli_args,       \* args: action, query, case_sensitive, output_folder
    stdout, stderr, \* what has been written to each stream, item by item
    cli_exit        \* the exit status, NoExit while main() runs

llmVars   == <<llm, l_init, l_pc, l_ret, l_calls>>
loadVars  == <<torch, load_attempts, whisper_model>>
batchVars == <<video_files, output_format, diarization_pipeline, llm_processor,
               b_pc, index, total, successful, failed, exit_code, files, items,
               propagating, loadVars>>
alignVars == <<whisper_segments, turns, diar, a_pc, turn_i, segments_with_speakers>>
cliVars == <<cli_args, stdout, stderr, cli_exit>>
searchVars == <<folders, embeddings_available, transcripts, s_pc, indexed, searched,
                engine_llm, semantic, asked, cliVars>>
vars      == <<llmVars, batchVars, alignVars, searchVars>>

----------------------------------------------------------------------------
(* Python values *)

\* None
PyNone == "<None>"

\* truthiness of an Optional[str]: None and "" are falsy
Truthy(v) == v # PyNone /\ v # ""

\* Exception classes. "Exception" stands for any subclass of Exception,
\* "KeyboardInterrupt" for a BaseException that is not an Exception.
ImportErrorClass == "ImportError"
ExceptionClasses == {"ImportError", "Exception"}

\* `except Exception` matches
ExceptException(exc) == exc \in ExceptionClasses

----------------------------------------------------------------------------
(* llm_processor.py *)

\* the four backends _initialize_client and process branch on
Backends == {"openai", "gemini", "claude", "ollama"}

\* backend identifiers a configuration may name
ProviderArgs == {"none", "NONE", "openai", "OpenAI", "gemini", "claude", "ollama", "llamacpp"}

\* str.lower() on the identifiers above, and on the letters of the texts
\* the search engine compares (search_engine.py:130-131)
Lower(s) ==
    CASE s = "NONE"   -> "none"
      [] s = "OpenAI" -> "openai"
      [] s = "A"      -> "a"
      [] s = "B"      -> "b"
      [] OTHER        -> s

ModelArgs == {PyNone, "custom-model"}
ApiKeyArgs == {PyNone, "key"}

\* how the client library behaves when _initialize_client reaches it
InitOutcomes == {"ok", "ImportError", "Exception"}

\* `self.model or <default>`
OrDefault(model, default) == IF Truthy(model) THEN model ELSE default

\* _initialize_client without the `except Exception` clause
initialize_client_mut(self, outcome) ==
    IF self.provider \notin Backends
    THEN self
    ELSE IF outcome = "ok"
    THEN CASE self.provider = "openai" ->
                [self EXCEPT !.client = "openai.OpenAI",
                             !.model = OrDefault(self.model, "gpt-4-turbo-preview")]
           [] self.provider = "gemini" ->
                [self EXCEPT !.client = "genai.GenerativeModel"]
           [] self.provider = "claude" ->
                [self EXCEPT !.client = "anthropic.Anthropic",
                             !.model = OrDefault(self.model, "claude-3-sonnet-20240229")]
           [] self.provider = "ollama" ->
                [self EXCEPT !.client = "ollama",
                             !.model = OrDefault(self.model, "llama3")]
    ELSE IF outcome = ImportErrorClass
    THEN [self EXCEPT !.provider = "none"]
    ELSE [self EXCEPT !.raised = outcome]

\* _initialize_client: the try block succeeds, or one of the two except
\* clauses sets provider to "none". An identifier that is none of the four
\* backends runs no branch at all.
initialize_client(self, outcome) ==
    IF self.provider \notin Backends
    THEN self
    ELSE IF outcome = "ok"
    THEN CASE self.provider = "openai" ->
                [self EXCEPT !.client = "openai.OpenAI",
                             !.model = OrDefault(self.model, "gpt-4-turbo-preview")]
           [] self.provider = "gemini" ->
                [self EXCEPT !.client = "genai.GenerativeModel"]
           [] self.provider = "claude" ->
                [self EXCEPT !.client = "anthropic.Anthropic",
                             !.model = OrDefault(self.model, "claude-3-sonnet-20240229")]
           [] self.provider = "ollama" ->
                [self EXCEPT !.client = "ollama",
                             !.model = OrDefault(self.model, "llama3")]
    ELSE IF outcome = ImportErrorClass
    THEN [self EXCEPT !.provider = "none"]
    ELSE IF ExceptException(outcome)
    THEN [self EXCEPT !.provider = "none"]
    ELSE [self EXCEPT !.raised = outcome]

\* LLMProcessor.__init__; raised is the exception that left the constructor
LLMProcessor(provider, api_key, model, outcome) ==
    LET self == [provider |-> Lower(provider), api_key |-> api_key,
                 model |-> model, client |-> PyNone, raised |-> ""]
    IN  IF self.provider # "none" THEN initialize_client(self, outcome) ELSE self

\* the check callers make before using the gateway
\* (batch_processor.py:273, search_engine.py:280)
Active(gw) == gw.provider # "none"

\* the named templates of _build_prompt
Templates == {"clean", "summary", "translate_en", "translate_ja", "detailed",
              "meeting_notes"}

\* _build_prompt: templates.get(template, templates["clean"]), with the
\* transcript substituted into the chosen template
build_prompt(transcript, template, language) ==
    [template |-> IF template \in Templates THEN template ELSE "clean",
     transcript |-> transcript]

\* what the backend's generation call does
BackendOutcomes == {"text", "empty", "none", "raise"}

\* _process_openai/_process_gemini/_process_claude/_process_ollama: the
\* backend's answer, or the exception it raised
process_backend(self, prompt, backend) ==
    CASE backend = "text"  -> [status |-> "return", value |-> "enhanced"]
      [] backend = "empty" -> [status |-> "return", value |-> ""]
      [] backend = "none"  -> [status |-> "return", value |-> PyNone]
      [] backend = "raise" -> [status |-> "raise",  value |-> "Exception"]
      [] backend = "relevant"   -> [status |-> "return",
                                    value |-> "{\"relevant\": true}"]
      [] backend = "irrelevant" -> [status |-> "return",
                                    value |-> "{\"relevant\": false}"]

NoPrompt == [template |-> "", transcript |-> ""]

\* process with the generation call outside any try block
process_mut(self, transcript, template, language, backend) ==
    IF self.provider = "none"
    THEN [status |-> "return", value |-> PyNone, prompt |-> NoPrompt, calls |-> 0,
          self |-> self]
    ELSE LET prompt == build_prompt(transcript, template, language)
         IN  IF self.provider \in Backends
             THEN LET r == process_backend(self, prompt, backend)
                  IN  [status |-> r.status, value |-> r.value,
                       prompt |-> prompt, calls |-> 1, self |-> self]
             ELSE [status |-> "return", value |-> PyNone, prompt |-> prompt,
                   calls |-> 0, self |-> self]

\* process without the `if self.provider == "none"` guard of lines 54-55
process_noguard_mut(self, transcript, template, language, backend) ==
    LET prompt == build_prompt(transcript, template, language)
    IN  IF self.provider \in Backends
        THEN LET r == process_backend(self, prompt, backend)
             IN  IF r.status = "raise" /\ ExceptException(r.value)
                 THEN [status |-> "return", value |-> PyNone,
                       prompt |-> prompt, calls |-> 1, self |-> self]
                 ELSE [status |-> r.status, value |-> r.value,
                       prompt |-> prompt, calls |-> 1, self |-> self]
        ELSE [status |-> "return", value |-> PyNone, prompt |-> prompt,
              calls |-> 0, self |-> self]

\* process that repeats a generation call that raised
process_retry_mut(self, transcript, template, language, backend) ==
    IF self.provider = "none"
    THEN [status |-> "return", value |-> PyNone, prompt |-> NoPrompt, calls |-> 0,
          self |-> self]
    ELSE LET prompt == build_prompt(transcript, template, language)
         IN  IF self.provider \in Backends
             THEN LET r == process_backend(self, prompt, backend)
                  IN  IF r.status = "raise" /\ ExceptException(r.value)
                      THEN [status |-> "return", value |-> PyNone,
                            prompt |-> prompt, calls |-> 2, self |-> self]
                      ELSE [status |-> r.status, value |-> r.value,
                            prompt |-> prompt, calls |-> 1, self |-> self]
             ELSE [status |-> "return", value |-> PyNone, prompt |-> prompt,
                   calls |-> 0, self |-> self]

\* LLMProcessor.process: status "return" with the value, or "raise" with the
\* exception class; prompt is the prompt built, calls the generation calls
\* made, self the gateway after the call (process assigns no attribute)
process(self, transcript, template, language, backend) ==
    IF self.provider = "none"
    THEN [status |-> "return", value |-> PyNone, prompt |-> NoPrompt, calls |-> 0,
          self |-> self]
    ELSE LET prompt == build_prompt(transcript, template, language)
         IN  IF self.provider \in Backends
             THEN LET r == process_backend(self, prompt, backend)
                  IN  IF r.status = "raise" /\ ExceptException(r.value)
                      THEN [status |-> "return", value |-> PyNone,
                            prompt |-> prompt, calls |-> 1, self |-> self]
                      ELSE [status |-> r.status, value |-> r.value,
                            prompt |-> prompt, calls |-> 1, self |-> self]
             ELSE [status |-> "return", value |-> PyNone, prompt |-> prompt,
                   calls |-> 0, self |-> self]

----------------------------------------------------------------------------
(* The gateway on its own: one construction, then calls of process *)

\* calls of process followed on one gateway
MaxProcessCalls == 2

TranscriptArgs == {"", "transcript text"}
TemplateArgs == {"clean", "summary", "no_such_template"}

NoGateway == [provider |-> "none", api_key |-> PyNone, model |-> PyNone,
              client |-> PyNone, raised |-> ""]
NoInit == [provider |-> "none", outcome |-> "ok"]
NoReturn == [called |-> FALSE, backend |-> "none", template |-> "",
             status |-> "return", value |-> PyNone, prompt |-> NoPrompt,
             calls |-> 0]

LLMIdle ==
    /\ llm = NoGateway
    /\ l_init = NoInit
    /\ l_pc = "idle"
    /\ l_ret = NoReturn
    /\ l_calls = 0

LLMInit ==
    /\ llm = NoGateway
    /\ l_init = NoInit
    /\ l_pc = "new"
    /\ l_ret = NoReturn
    /\ l_calls = 0

\* LLMProcessor(provider=..., api_key=..., model=...)
LLMConstruct ==
    /\ l_pc = "new"
    /\ \E provider \in ProviderArgs, api_key \in ApiKeyArgs, model \in ModelArgs,
          outcome \in InitOutcomes :
          LET self == LLMProcessor(provider, api_key, model, outcome)
          IN  /\ llm' = self
              /\ l_init' = [provider |-> provider, outcome |-> outcome]
              /\ l_pc' = IF self.raised # "" THEN "raised" ELSE "ready"
    /\ UNCHANGED <<l_ret, l_calls>>
    /\ UNCHANGED <<batchVars, alignVars, searchVars>>

\* llm.process(transcript, template, language)
LLMProcess ==
    /\ l_pc = "ready"
    /\ l_calls < MaxProcessCalls
    /\ \E transcript \in TranscriptArgs, template \in TemplateArgs,
          backend \in BackendOutcomes :
          LET r == process(llm, transcript, template, "auto", backend)
          IN  /\ l_ret' = [called |-> TRUE, backend |-> backend,
                           template |-> template,
                           status |-> r.status, value |-> r.value,
                           prompt |-> r.prompt, calls |-> r.calls]
              /\ llm' = r.self
              /\ l_pc' = IF r.status = "raise" THEN "raised" ELSE "ready"
    /\ l_calls' = l_calls + 1
    /\ UNCHANGED l_init
    /\ UNCHANGED <<batchVars, alignVars, searchVars>>

----------------------------------------------------------------------------
(* batch_processor.py: main() and process_video *)

\* items of one batch
MaxVideos == 3

NoExit == -1
NoProcessor == [provider |-> "<no processor>", api_key |-> PyNone, model |-> PyNone,
                client |-> PyNone, raised |-> ""]

OutputFormats == {"txt", "md", "both"}

\* os.path.exists(video_path)
os_path_exists_mut(video) == TRUE
os_path_exists(video) == video.exists

\* sys.exit(0 if failed == 0 else 1)
ExitCode_mut(failed_count) == IF failed_count > 1 THEN 1 ELSE 0
ExitCode(failed_count) == IF failed_count = 0 THEN 0 ELSE 1

\* the `except Exception` of process_video (line 320) catches exc
process_video_catches_mut(exc) == FALSE
process_video_catches(exc) == ExceptException(exc)

\* the except clause of transcribe_audio_with_whisper (lines 237-240): the
\* files left when exc leaves the function
transcribe_except(fs, i, exc) ==
    IF ExceptException(exc) THEN fs \ {<<i, "wav">>} ELSE fs

\* lines 213-229: the transcript files written for a format
TranscriptKinds(fmt) ==
    (IF fmt \in {"txt", "both"} THEN {"transcript_txt"} ELSE {}) \cup
    (IF fmt \in {"md", "both"} THEN {"transcript_md"} ELSE {})

\* lines 285-310 with `if enhanced_text is not None`
EnhancedKinds_mut(fmt, enhanced_text) ==
    IF enhanced_text # PyNone
    THEN (IF fmt \in {"txt", "both"} THEN {"enhanced_txt"} ELSE {}) \cup
         (IF fmt \in {"md", "both"} THEN {"enhanced_md"} ELSE {})
    ELSE {}

\* lines 285-310: the enhanced files written for a format and a response
EnhancedKinds(fmt, enhanced_text) ==
    IF Truthy(enhanced_text)
    THEN (IF fmt \in {"txt", "both"} THEN {"enhanced_txt"} ELSE {}) \cup
         (IF fmt \in {"md", "both"} THEN {"enhanced_md"} ELSE {})
    ELSE {}

\* the gateways main() can hold after lines 380-398
Processors ==
    {NoProcessor} \cup
    {LLMProcessor(p, PyNone, PyNone, o) :
        p \in {"none", "openai", "llamacpp"}, o \in {"ok", "Exception"}}

\* process_calls: calls of llm_processor.process for the item;
\* generation_calls: generation calls those made
NewItem(i) == [index |-> i, started |-> {}, fault |-> "", outcome |-> "pending",
               backend |-> "", enhanced_text |-> PyNone,
               process_calls |-> 0, generation_calls |-> 0]

BatchIdle ==
    /\ video_files = <<>>
    /\ output_format = "txt"
    /\ diarization_pipeline = FALSE
    /\ llm_processor = NoProcessor
    /\ b_pc = "idle"
    /\ index = 1
    /\ total = 0
    /\ successful = 0
    /\ failed = 0
    /\ exit_code = NoExit
    /\ files = {}
    /\ items = <<>>
    /\ propagating = ""
    /\ torch = [cuda |-> FALSE, mps |-> FALSE]
    /\ load_attempts = <<>>
    /\ whisper_model = PyNone

\* main() up to line 401: the arguments parsed, the engines loaded
BatchInit ==
    /\ \E n \in 0..MaxVideos :
          \E exists \in [1..n -> BOOLEAN] :
             video_files = [i \in 1..n |-> [exists |-> exists[i],
                                            name |-> <<"video", ToString(i)>>]]
    /\ output_format \in OutputFormats
    /\ diarization_pipeline \in BOOLEAN
    /\ llm_processor \in Processors
    /\ b_pc = "loop"
    /\ index = 1
    /\ total = Len(video_files)
    /\ successful = 0
    /\ failed = 0
    /\ exit_code = NoExit
    /\ files = {}
    /\ items = <<>>
    /\ propagating = ""
    /\ torch = [cuda |-> FALSE, mps |-> FALSE]
    /\ load_attempts = << [device |-> "cpu", outcome |-> "ok"] >>
    /\ whisper_model = "cpu"

\* process_video returned to main (lines 409-412)
ItemReturns(result, its) ==
    /\ successful' = IF result THEN successful + 1 ELSE successful
    /\ failed' = IF result THEN failed ELSE failed + 1
    /\ items' = [its EXCEPT ![index].outcome = IF result THEN "ok" ELSE "failed"]
    /\ index' = index + 1
    /\ b_pc' = "loop"
    /\ UNCHANGED <<exit_code, propagating>>

\* exc raised inside process_video's try block: line 320 turns it into
\* `return False`, or it leaves process_video and main()
ItemRaises(exc, its) ==
    IF process_video_catches(exc)
    THEN ItemReturns(FALSE, its)
    ELSE /\ b_pc' = "aborted"
         /\ propagating' = exc
         /\ exit_code' = 1
         /\ items' = its
         /\ UNCHANGED <<successful, failed, index>>

Starts(stage) == [items EXCEPT ![index].started = @ \cup {stage}]
Faults(its, stage) == [its EXCEPT ![index].fault = stage]

\* lines 403-407: the file is missing
MainSkipMissing ==
    /\ b_pc = "loop"
    /\ index <= Len(video_files)
    /\ ~os_path_exists(video_files[index])
    /\ failed' = failed + 1
    /\ items' = Append(items, [NewItem(index) EXCEPT !.fault = "missing",
                                                     !.outcome = "failed"])
    /\ index' = index + 1
    /\ UNCHANGED <<video_files, output_format, diarization_pipeline, llm_processor,
                   b_pc, total, successful, exit_code, files, propagating>>
    /\ UNCHANGED <<llmVars, alignVars, searchVars, loadVars>>

\* line 409: process_video is called
MainCallProcessVideo ==
    /\ b_pc = "loop"
    /\ index <= Len(video_files)
    /\ os_path_exists(video_files[index])
    /\ items' = Append(items, NewItem(index))
    /\ b_pc' = "convert"
    /\ UNCHANGED <<video_files, output_format, diarization_pipeline, llm_processor,
                   index, total, successful, failed, exit_code, files, propagating>>
    /\ UNCHANGED <<llmVars, alignVars, searchVars, loadVars>>

\* lines 416-420: the loop is over
MainExit ==
    /\ b_pc = "loop"
    /\ index > Len(video_files)
    /\ exit_code' = ExitCode(failed)
    /\ b_pc' = "done"
    /\ UNCHANGED <<video_files, output_format, diarization_pipeline, llm_processor,
                   index, total, successful, failed, files, items, propagating>>
    /\ UNCHANGED <<llmVars, alignVars, searchVars, loadVars>>

\* stage 1, convert_video_to_mp3 (lines 26-52)
ConvertVideoToMp3 ==
    /\ b_pc = "convert"
    /\ \E outcome \in {"ok", "Exception"} :
          IF outcome = "ok"
          THEN /\ files' = files \cup {<<index, "mp3">>}
               /\ items' = Starts("extraction")
               /\ b_pc' = "resample"
               /\ UNCHANGED <<index, successful, failed, exit_code, propagating>>
          ELSE /\ files' = files
               /\ ItemRaises(outcome, Faults(Starts("extraction"), "extraction"))
    /\ UNCHANGED <<video_files, output_format, diarization_pipeline, llm_processor, total>>
    /\ UNCHANGED <<llmVars, alignVars, searchVars, loadVars>>

\* stage 2, lines 119-138: the MP3 is resampled into <name>_temp.wav. When
\* ffmpeg fails it may or may not have left a partial file (partial).
Resample ==
    /\ b_pc = "resample"
    /\ \E outcome \in {"ok", "Exception"}, partial \in BOOLEAN :
          IF outcome = "ok"
          THEN /\ partial
               /\ files' = files \cup {<<index, "wav">>}
               /\ items' = Starts("transcription")
               /\ b_pc' = "transcribe"
               /\ UNCHANGED <<index, successful, failed, exit_code, propagating>>
          ELSE /\ files' = transcribe_except(
                              files \cup (IF partial THEN {<<index, "wav">>} ELSE {}),
                              index, outcome)
               /\ ItemRaises(outcome, Faults(Starts("transcription"), "transcription"))
    /\ UNCHANGED <<video_files, output_format, diarization_pipeline, llm_processor, total>>
    /\ UNCHANGED <<llmVars, alignVars, searchVars, loadVars>>

\* stage 2, lines 140-153: whisper_model.transcribe
Transcribe ==
    /\ b_pc = "transcribe"
    /\ \E outcome \in {"ok", "Exception"} :
          IF outcome = "ok"
          THEN /\ b_pc' = "align"
               /\ UNCHANGED <<files, items, index, successful, failed, exit_code,
                              propagating>>
          ELSE /\ files' = transcribe_except(files, index, outcome)
               /\ ItemRaises(outcome, Faults(items, "transcription"))
    /\ UNCHANGED <<video_files, output_format, diarization_pipeline, llm_processor, total>>
    /\ UNCHANGED <<llmVars, alignVars, searchVars, loadVars>>

\* stage 2, lines 155-201: diarization, if a pipeline is loaded, and the
\* alignment; a diarization failure is caught at line 185
Align ==
    /\ b_pc = "align"
    /\ \E outcome \in {"ok", "Exception"} :
          /\ (outcome = "Exception" => diarization_pipeline)
          /\ items' = IF diarization_pipeline THEN Starts("diarization") ELSE items
    /\ b_pc' = "persist"
    /\ UNCHANGED <<video_files, output_format, diarization_pipeline, llm_processor,
                   index, total, successful, failed, exit_code, files, propagating>>
    /\ UNCHANGED <<llmVars, alignVars, searchVars, loadVars>>

\* what line 273 decides
EnhancementDue == llm_processor # NoProcessor /\ Active(llm_processor)

\* stage 2, lines 203-235: the transcript is written, the temporary WAV
\* removed; then process_video goes on to line 273. When a write fails, the
\* files written before it (written: the .txt before the .md) remain.
Persist ==
    /\ b_pc = "persist"
    /\ \E outcome \in {"ok", "Exception"}, written \in SUBSET TranscriptKinds(output_format) :
          IF outcome = "ok"
          THEN /\ written = TranscriptKinds(output_format)
               /\ files' = (files \cup {<<index, k>> : k \in written}) \ {<<index, "wav">>}
               /\ IF EnhancementDue
                  THEN /\ b_pc' = "enhance"
                       /\ UNCHANGED <<items, index, successful, failed, exit_code,
                                      propagating>>
                  ELSE ItemReturns(TRUE, items)
          ELSE /\ written # TranscriptKinds(output_format)
               /\ ("transcript_md" \in written => "transcript_txt" \in written
                                                    \/ output_format = "md")
               /\ files' = transcribe_except(files \cup {<<index, k>> : k \in written},
                                             index, outcome)
               /\ ItemRaises(outcome, Faults(items, "transcription"))
    /\ UNCHANGED <<video_files, output_format, diarization_pipeline, llm_processor, total>>
    /\ UNCHANGED <<llmVars, alignVars, searchVars, loadVars>>

\* stage 3, lines 273-312
Enhance ==
    /\ b_pc = "enhance"
    /\ \E backend \in BackendOutcomes :
          LET r == process(llm_processor, "transcript text", "clean", "auto", backend)
              its == [Starts("enhancement") EXCEPT
                         ![index].backend = IF r.calls > 0 THEN backend ELSE "",
                         ![index].process_calls = @ + 1,
                         ![index].generation_calls = @ + r.calls,
                         ![index].enhanced_text =
                             IF r.status = "return" THEN r.value ELSE PyNone]
          IN  IF r.status = "raise"
              THEN /\ files' = files
                   /\ ItemRaises(r.value, Faults(its, "enhancement"))
              ELSE /\ files' = files \cup
                        {<<index, k>> : k \in EnhancedKinds(output_format, r.value)}
                   /\ ItemReturns(TRUE, its)
    /\ UNCHANGED <<video_files, output_format, diarization_pipeline, llm_processor, total>>
    /\ UNCHANGED <<llmVars, alignVars, searchVars, loadVars>>

\* KeyboardInterrupt (Ctrl-C) while an item is being processed: a
\* BaseException, which no `except Exception` clause catches
Interrupt ==
    /\ b_pc \in {"convert", "resample", "transcribe", "align", "persist", "enhance"}
    /\ files' = IF b_pc \in {"resample", "transcribe", "align", "persist"}
                THEN transcribe_except(files, index, "KeyboardInterrupt")
                ELSE files
    /\ ItemRaises("KeyboardInterrupt", Faults(items, "interrupt"))
    /\ UNCHANGED <<video_files, output_format, diarization_pipeline, llm_processor, total>>
    /\ UNCHANGED <<llmVars, alignVars, searchVars, loadVars>>

----------------------------------------------------------------------------
(* batch_processor.py: the alignment inside transcribe_audio_with_whisper *)

\* whisper segments of one transcription, turns of one diarization
MaxSegments == 2
MaxTurns == 2

\* Times are counted in ticks, TicksPerSecond to the second, so that
\* timestamps fall between whole seconds.
TicksPerSecond == 2
TimeGrid == {0, 1, 2, 3}

\* Texts are sequences of characters; whisper's segment texts usually start
\* with a space.
Texts == {<<"a">>, <<" ", "b">>, <<" ">>}
Speakers == {"SPEAKER_00", "SPEAKER_01"}

NoRaise == -1

\* the whitespace characters that occur in the texts modelled
Whitespace == {" ", "\n"}

\* str.strip()
RECURSIVE LStrip(_)
LStrip(s) == IF s # <<>> /\ Head(s) \in Whitespace THEN LStrip(Tail(s)) ELSE s
RECURSIVE RStrip(_)
RStrip(s) ==
    IF s # <<>> /\ s[Len(s)] \in Whitespace
    THEN RStrip(SubSeq(s, 1, Len(s) - 1))
    ELSE s
Strip(s) == RStrip(LStrip(s))

\* format_timestamp: hours, minutes and seconds of HH:MM:SS, truncated
format_timestamp(ticks) ==
    [hours   |-> ticks \div (3600 * TicksPerSecond),
     minutes |-> (ticks % (3600 * TicksPerSecond)) \div (60 * TicksPerSecond),
     secs    |-> (ticks % (60 * TicksPerSecond)) \div TicksPerSecond]

\* lines 170-176 with the test `whisper_start >= segment_start and
\* whisper_start <= segment_end`
RECURSIVE segment_text_mut(_, _, _)
segment_text_mut(turn, segs, n) ==
    IF n = 0
    THEN <<>>
    ELSE LET w == segs[n]
         IN  IF w.start >= turn.start /\ w.start <= turn.end
             THEN segment_text_mut(turn, segs, n - 1) \o w.text \o <<" ">>
             ELSE segment_text_mut(turn, segs, n - 1)

\* segment_text that takes every whisper segment overlapping the turn
RECURSIVE segment_text_overlap_mut(_, _, _)
segment_text_overlap_mut(turn, segs, n) ==
    IF n = 0
    THEN <<>>
    ELSE LET w == segs[n]
         IN  IF w.end >= turn.start /\ w.start <= turn.end
             THEN segment_text_overlap_mut(turn, segs, n - 1) \o w.text \o <<" ">>
             ELSE segment_text_overlap_mut(turn, segs, n - 1)

\* lines 170-176: segment_text after the inner loop has run over the first
\* n whisper segments
RECURSIVE segment_text(_, _, _)
segment_text(turn, segs, n) ==
    IF n = 0
    THEN <<>>
    ELSE LET w == segs[n]
         IN  IF w.start >= turn.start /\ w.end <= turn.end
             THEN segment_text(turn, segs, n - 1) \o w.text \o <<" ">>
             ELSE segment_text(turn, segs, n - 1)

\* the loop body with the test `if segment_text:` in place of line 178
align_turn_mut(out, turn, segs) ==
    LET text == segment_text(turn, segs, Len(segs))
    IN  IF text # <<>>
        THEN Append(out, [start |-> format_timestamp(turn.start),
                          end |-> format_timestamp(turn.end),
                          speaker |-> turn.speaker,
                          text |-> Strip(text)])
        ELSE out

\* lines 166-184: one iteration of the loop over diarization.itertracks
align_turn(out, turn, segs) ==
    LET text == segment_text(turn, segs, Len(segs))
    IN  IF Strip(text) # <<>>
        THEN Append(out, [start |-> format_timestamp(turn.start),
                          end |-> format_timestamp(turn.end),
                          speaker |-> turn.speaker,
                          text |-> Strip(text)])
        ELSE out

\* lines 187-193 and 195-201: one segment per whisper segment, appended
fallback_segments(out, segs) ==
    out \o [i \in 1..Len(segs) |->
               [start |-> format_timestamp(segs[i].start),
                end |-> format_timestamp(segs[i].end),
                speaker |-> "SPEAKER_00",
                text |-> Strip(segs[i].text)]]

Intervals == {iv \in TimeGrid \X TimeGrid : iv[1] < iv[2]}

\* result['segments']: time-ordered, without overlaps
RawSegmentSeqs ==
    UNION {{ws \in [1..n -> [start : TimeGrid, end : TimeGrid, text : Texts]] :
               /\ \A i \in 1..n : ws[i].start < ws[i].end
               /\ \A i \in 1..(n - 1) : ws[i].end <= ws[i + 1].start}
           : n \in 0..MaxSegments}

\* itertracks: turns in the order of (start, end); they may overlap
TurnSeqs ==
    UNION {{ts \in [1..n -> [start : TimeGrid, end : TimeGrid, speaker : Speakers]] :
               /\ \A i \in 1..n : ts[i].start < ts[i].end
               /\ \A i \in 1..(n - 1) :
                     \/ ts[i].start < ts[i + 1].start
                     \/ ts[i].start = ts[i + 1].start /\ ts[i].end < ts[i + 1].end}
           : n \in 0..MaxTurns}

AlignIdle ==
    /\ whisper_segments = <<>>
    /\ turns = <<>>
    /\ diar = [present |-> FALSE, raised_after |-> NoRaise]
    /\ a_pc = "idle"
    /\ turn_i = 0
    /\ segments_with_speakers = <<>>

\* line 155: transcription has succeeded
AlignInit ==
    /\ whisper_segments \in RawSegmentSeqs
    /\ turns \in TurnSeqs
    /\ diar \in [present : BOOLEAN, raised_after : {NoRaise}]
    /\ a_pc = "start"
    /\ turn_i = 0
    /\ segments_with_speakers = <<>>

\* lines 194-201: no diarization pipeline
AlignNoPipeline ==
    /\ a_pc = "start"
    /\ ~diar.present
    /\ segments_with_speakers' = fallback_segments(segments_with_speakers, whisper_segments)
    /\ a_pc' = "done"
    /\ UNCHANGED <<whisper_segments, turns, diar, turn_i>>
    /\ UNCHANGED <<llmVars, batchVars, searchVars>>

\* lines 157-164: the pipeline is invoked and returns
AlignDiarize ==
    /\ a_pc = "start"
    /\ diar.present
    /\ a_pc' = "turns"
    /\ UNCHANGED <<whisper_segments, turns, diar, turn_i, segments_with_speakers>>
    /\ UNCHANGED <<llmVars, batchVars, searchVars>>

\* lines 166-184: the next turn is aligned
AlignTurn ==
    /\ a_pc = "turns"
    /\ turn_i < Len(turns)
    /\ segments_with_speakers' =
           align_turn(segments_with_speakers, turns[turn_i + 1], whisper_segments)
    /\ turn_i' = turn_i + 1
    /\ UNCHANGED <<whisper_segments, turns, diar, a_pc>>
    /\ UNCHANGED <<llmVars, batchVars, searchVars>>

\* the loop over the turns ends
AlignTurnsEnd ==
    /\ a_pc = "turns"
    /\ turn_i = Len(turns)
    /\ a_pc' = "done"
    /\ UNCHANGED <<whisper_segments, turns, diar, turn_i, segments_with_speakers>>
    /\ UNCHANGED <<llmVars, batchVars, searchVars>>

\* lines 185-193: the pipeline raises, when invoked (a_pc = "start") or while
\* its turns are iterated; the handler appends the fallback segments
AlignDiarizationRaises ==
    /\ a_pc \in {"start", "turns"}
    /\ diar.present
    /\ diar' = [diar EXCEPT !.raised_after = turn_i]
    /\ segments_with_speakers' = fallback_segments(segments_with_speakers, whisper_segments)
    /\ a_pc' = "done"
    /\ UNCHANGED <<whisper_segments, turns, turn_i>>
    /\ UNCHANGED <<llmVars, batchVars, searchVars>>

----------------------------------------------------------------------------
(* Strings. A string is a sequence of characters; a run of letters that no   *)
(* pattern of the code looks into ("SPEAKER_00", "Detected Language") is one *)
(* element.                                                                  *)

\* s.startswith(prefix)
StartsWith(s, prefix) ==
    Len(s) >= Len(prefix) /\ SubSeq(s, 1, Len(prefix)) = prefix

\* the positions at which sub occurs in s
Occurrences(s, sub) ==
    {i \in 1..(Len(s) - Len(sub) + 1) : SubSeq(s, i, i + Len(sub) - 1) = sub}

\* s.find(sub) counted from 1; 0 when sub does not occur
Find(s, sub) ==
    LET hits == Occurrences(s, sub)
    IN  IF hits = {} THEN 0 ELSE CHOOSE i \in hits : \A j \in hits : i <= j

\* `sub in s`
Contains(s, sub) == Find(s, sub) # 0

\* what follows the first occurrence of sub
After(s, sub) == SubSeq(s, Find(s, sub) + Len(sub), Len(s))

\* s.split(sep)
RECURSIVE Split(_, _)
Split(s, sep) ==
    LET i == Find(s, sep)
    IN  IF i # 0
        THEN <<SubSeq(s, 1, i - 1)>> \o Split(SubSeq(s, i + Len(sep), Len(s)), sep)
        ELSE <<s>>

\* sep.join(parts)
RECURSIVE Join(_, _)
Join(parts, sep) ==
    IF parts = <<>> THEN <<>>
    ELSE IF Len(parts) = 1 THEN parts[1]
    ELSE parts[1] \o sep \o Join(Tail(parts), sep)

\* s.replace(sub, new)
RECURSIVE Replace(_, _, _)
Replace(s, sub, new) ==
    LET i == Find(s, sub)
    IN  IF i # 0
        THEN SubSeq(s, 1, i - 1) \o new
                 \o Replace(SubSeq(s, i + Len(sub), Len(s)), sub, new)
        ELSE s

\* s.replace(sub, '')
Remove(s, sub) == Replace(s, sub, <<>>)

\* s.endswith(suffix)
EndsWith(s, suffix) ==
    Len(s) >= Len(suffix) /\ SubSeq(s, Len(s) - Len(suffix) + 1, Len(s)) = suffix

\* s.lower()
RECURSIVE lower(_)
lower(s) == IF s = <<>> THEN <<>> ELSE <<Lower(Head(s))>> \o lower(Tail(s))

\* the longest prefix of s whose characters are all in class
RECURSIVE Run(_, _)
Run(s, class) ==
    IF s # <<>> /\ Head(s) \in class THEN <<Head(s)>> \o Run(Tail(s), class) ELSE <<>>

\* the longest prefix of s that has no character of class
RECURSIVE RunNot(_, _)
RunNot(s, class) ==
    IF s # <<>> /\ Head(s) \notin class
    THEN <<Head(s)>> \o RunNot(Tail(s), class)
    ELSE <<>>

Drop(s, n) == SubSeq(s, n + 1, Len(s))

DecimalDigits == <<"0", "1", "2", "3", "4", "5", "6", "7", "8", "9">>

\* f"{n:02d}"
RECURSIVE Decimal(_)
Decimal(n) ==
    IF n < 10 THEN <<DecimalDigits[n + 1]>>
    ELSE Decimal(n \div 10) \o <<DecimalDigits[(n % 10) + 1]>>
ZeroPadded2(n) == IF n < 10 THEN <<"0">> \o Decimal(n) ELSE Decimal(n)

\* format_timestamp's return value, f"{hours:02d}:{minutes:02d}:{secs:02d}"
timestamp_str(stamp) ==
    ZeroPadded2(stamp.hours) \o <<":">> \o ZeroPadded2(stamp.minutes) \o <<":">>
        \o ZeroPadded2(stamp.secs)

----------------------------------------------------------------------------
(* transcript_formatter.py *)

\* "=" * 80
Rule == <<"=" , "=", "=">>

NewLine == <<"\n">>

\* the dict appended to segments_with_speakers (batch_processor.py:178-183),
\* its timestamps as the strings format_timestamp returns
SegmentDict(seg) ==
    [start |-> timestamp_str(seg.start), end |-> timestamp_str(seg.end),
     speaker |-> <<seg.speaker>>, text |-> seg.text]

\* line 20: f"[{start} -> {end}] {speaker}: {text}"
txt_segment_line(seg) ==
    <<"[">> \o seg.start \o <<" ", "-", ">", " ">> \o seg.end \o <<"]", " ">>
        \o seg.speaker \o <<":", " ">> \o seg.text

\* TranscriptFormatter.format_txt
format_txt(video_filename, language, duration, segments, full_text) ==
    Join(<< <<"Detected Language", ":", " ">> \o language,
            <<"Total Duration", ":", " ">> \o duration,
            <<>>,
            <<"TRANSCRIPT WITH SPEAKERS", ":">>,
            Rule,
            <<>> >>
         \o [i \in 1..Len(segments) |-> txt_segment_line(segments[i])]
         \o << <<>>,
               Rule,
               <<"FULL TRANSCRIPT", ":">>,
               Rule,
               <<>>,
               full_text >>,
         NewLine)

\* lines 49-51: the three lines format_md writes per segment
md_segment_lines(seg) ==
    << <<"###", " ">> \o seg.start \o <<" ", "→", " ">> \o seg.end,
       <<"**">> \o seg.speaker \o <<":", "**", " ">> \o seg.text,
       <<>> >>

RECURSIVE md_segments(_)
md_segments(segments) ==
    IF segments = <<>> THEN <<>>
    ELSE md_segment_lines(Head(segments)) \o md_segments(Tail(segments))

\* datetime.now().strftime('%Y-%m-%d %H:%M:%S') at the time of writing
Now == <<"2", "0", "2", "4", "-", "0", "1", "-", "0", "1", " ",
         "1", "2", ":", "0", "0", ":", "0", "0">>

\* TranscriptFormatter.format_md
format_md(video_filename, language, duration, segments, full_text) ==
    Join(<< <<"#", " ", "Transcript", ":", " ">> \o video_filename,
            <<>>,
            <<"**", "Language", ":", "**", " ">> \o language \o <<" ", " ">>,
            <<"**", "Duration", ":", "**", " ">> \o duration \o <<" ", " ">>,
            <<"**", "Generated", ":", "**", " ">> \o Now,
            <<>>,
            <<"-", "-", "-">>,
            <<>>,
            <<"##", " ", "Transcript with Speakers">>,
            <<>> >>
         \o md_segments(segments)
         \o << <<"-", "-", "-">>,
               <<>>,
               <<"##", " ", "Full Transcript">>,
               <<>>,
               full_text >>,
         NewLine)

----------------------------------------------------------------------------
(* search_engine.py: _parse_transcript *)

\* the characters [\d:] of the pattern at line 94
TimestampChars == {DecimalDigits[i] : i \in 1..10} \cup {":"}

FullTranscriptMark == <<"FULL TRANSCRIPT", ":">>

\* lines 80-84: the text after the first ":" of the first line that starts
\* with "Detected Language:", or "unknown"
RECURSIVE parse_language(_)
parse_language(lines) ==
    IF lines = <<>> THEN <<"unknown">>
    ELSE IF StartsWith(Head(lines), <<"Detected Language", ":">>)
    THEN Strip(After(Head(lines), <<":">>))
    ELSE parse_language(Tail(lines))

\* line 94: re.match(r'\[([\d:]+) -> ([\d:]+)\] ([^:]+): (.+)', line): the
\* four groups in a one-element sequence, or <<>> when the line does not match
segment_match(line) ==
    IF ~StartsWith(line, <<"[">>) THEN <<>>
    ELSE
    LET r1 == Drop(line, 1)
        g1 == Run(r1, TimestampChars)
        r2 == Drop(r1, Len(g1))
        r3 == Drop(r2, 4)
        g2 == Run(r3, TimestampChars)
        r4 == Drop(r3, Len(g2))
        r5 == Drop(r4, 2)
        g3 == RunNot(r5, {":"})
        r6 == Drop(r5, Len(g3))
        g4 == Drop(r6, 2)
    IN  IF /\ g1 # <<>>
           /\ StartsWith(r2, <<" ", "-", ">", " ">>)
           /\ g2 # <<>>
           /\ StartsWith(r4, <<"]", " ">>)
           /\ g3 # <<>>
           /\ StartsWith(r6, <<":", " ">>)
           /\ g4 # <<>>
        THEN << [start |-> g1, end |-> g2, speaker |-> g3, text |-> g4] >>
        ELSE <<>>

\* lines 91-107: the loop body for one line; acc holds segments, in_segments
\* and full_text
parse_line(acc, line) ==
    IF StartsWith(line, <<"[">>) /\ Contains(line, <<"-", ">">>)
                                /\ Contains(line, <<"]">>)
    THEN LET m == segment_match(line)
         IN  IF m # <<>>
             THEN [acc EXCEPT
                      !.segments = Append(@, [m[1] EXCEPT !.text = Strip(@)]),
                      !.full_text = @ \o Strip(m[1].text) \o <<" ">>]
             ELSE acc
    ELSE IF Contains(line, FullTranscriptMark)
    THEN [acc EXCEPT !.in_segments = FALSE]
    ELSE IF acc.in_segments /\ Strip(line) # <<>>
    THEN [acc EXCEPT !.full_text = @ \o Strip(line) \o <<" ">>]
    ELSE acc

RECURSIVE parse_lines(_, _)
parse_lines(acc, lines) ==
    IF lines = <<>> THEN acc
    ELSE parse_lines(parse_line(acc, Head(lines)), Tail(lines))

\* Path(file_path).stem.replace('_transcript', ''); a file name is the
\* sequence of its parts, the extension last
file_name_of(name) == Remove(SubSeq(name, 1, Len(name) - 1), <<"_transcript">>)

\* the record has no 'embedding' key
NoEmbedding == [present |-> FALSE, vector_of |-> <<>>]

\* TranscriptSearchEngine._parse_transcript
parse_transcript(content, file_path) ==
    LET lines == Split(content, NewLine)
        acc == parse_lines([segments |-> <<>>, in_segments |-> FALSE,
                            full_text |-> <<>>], lines)
        parts == Split(content, FullTranscriptMark)
        full_text == IF acc.segments = <<>> /\ Contains(content, FullTranscriptMark)
                     THEN Strip(parts[Len(parts)])
                     ELSE acc.full_text
    IN  [file_path |-> file_path,
         file_name |-> file_name_of(file_path.name),
         language |-> parse_language(lines),
         segments |-> acc.segments,
         full_text |-> Strip(full_text),
         embedding |-> NoEmbedding]

----------------------------------------------------------------------------
(* search_engine.py: index_transcripts and keyword_search *)

TxtSuffix == <<"_transcript", ".txt">>
MdSuffix == <<"_transcript", ".md">>

\* output_path.glob("*" + suffix): the files of the listing, in the order
\* the file system enumerates them, whose names end with the suffix
RECURSIVE glob(_, _)
glob(listing, suffix) ==
    IF listing = <<>> THEN <<>>
    ELSE IF EndsWith(Head(listing).name, suffix) /\ Len(Head(listing).name) > Len(suffix)
    THEN <<Head(listing).name>> \o glob(Tail(listing), suffix)
    ELSE glob(Tail(listing), suffix)

\* Path(...).exists() for a file of the listing
path_exists(listing, name) == \E i \in 1..Len(listing) : listing[i].name = name

\* open(file_path).read()
read(listing, name) ==
    (CHOOSE f \in {listing[i] : i \in 1..Len(listing)} : f.name = name).content

\* lines 42-53: the loop that removes duplicates, run over transcript_files
\* with seen_basenames as it stands
RECURSIVE unique_files(_, _, _)
unique_files(listing, transcript_files, seen_basenames) ==
    IF transcript_files = <<>> THEN <<>>
    ELSE LET file_path == Head(transcript_files)
             basename == Remove(Remove(file_path, TxtSuffix), MdSuffix)
             txt_path == Replace(file_path, MdSuffix, TxtSuffix)
         IN  IF basename \notin seen_basenames
             THEN <<IF path_exists(listing, txt_path) THEN txt_path ELSE file_path>>
                  \o unique_files(listing, Tail(transcript_files),
                                  seen_basenames \cup {basename})
             ELSE unique_files(listing, Tail(transcript_files), seen_basenames)

\* what can go wrong with one file inside the try block of lines 56-69:
\* open/read raises, or embedding_model.encode raises
FaultKinds == {"", "read", "encode"}

\* embedding_model.encode(text)
encode(text) == [present |-> TRUE, vector_of |-> text]

\* lines 55-71: the loop over unique_files; faults[i] is what goes wrong
\* with the i-th file
RECURSIVE index_files(_, _, _, _, _, _)
index_files(acc, listing, folder, file_paths, faults, embeddings) ==
    IF file_paths = <<>> THEN acc
    ELSE LET name == Head(file_paths)
             fault == Head(faults)
             transcript_data ==
                 parse_transcript(read(listing, name), [folder |-> folder, name |-> name])
             next == IF fault = "read" THEN acc
                     ELSE IF embeddings /\ fault # "encode"
                     THEN Append(acc, [transcript_data EXCEPT
                                          !.embedding = encode(transcript_data.full_text)])
                     ELSE Append(acc, transcript_data)
         IN  index_files(next, listing, folder, Tail(file_paths), Tail(faults), embeddings)

\* line 39
transcript_files_of(listing) == glob(listing, TxtSuffix) \o glob(listing, MdSuffix)

\* the folder does not exist
NoListing == [exists |-> FALSE, files |-> <<>>]

\* index_transcripts that keeps the records of earlier calls
index_transcripts_mut(self_transcripts, listing, folder, faults, embeddings) ==
    IF ~listing.exists THEN self_transcripts
    ELSE index_files(self_transcripts, listing.files, folder,
                     unique_files(listing.files, transcript_files_of(listing.files), {}),
                     faults, embeddings)

\* index_transcripts: self.transcripts after the call. self_transcripts is
\* the list before the call, listing says whether the folder exists and
\* which files it has
index_transcripts(self_transcripts, listing, folder, faults, embeddings) ==
    IF ~listing.exists THEN <<>>
    ELSE index_files(<<>>, listing.files, folder,
                     unique_files(listing.files, transcript_files_of(listing.files), {}),
                     faults, embeddings)

\* the test of line 136 with the query as given
segment_matches_mut(segment, query, case_sensitive) ==
    IF case_sensitive
    THEN Contains(segment.text, query)
    ELSE Contains(lower(segment.text), query)

\* a segment's text contains the query (lines 136 and 146)
segment_matches(segment, query, case_sensitive) ==
    IF case_sensitive
    THEN Contains(segment.text, query)
    ELSE Contains(lower(segment.text), lower(query))

\* _highlight_text: pattern.sub(lambda m: f"**{m.group()}**", text)
RECURSIVE highlight_text(_, _, _)
highlight_text(text, query, case_sensitive) ==
    LET n == Len(query)
        here == /\ Len(text) >= n
                /\ IF case_sensitive
                   THEN SubSeq(text, 1, n) = query
                   ELSE lower(SubSeq(text, 1, n)) = lower(query)
    IN  IF text = <<>>
        THEN IF n = 0 THEN <<"**", "**">> ELSE <<>>
        ELSE IF n = 0
        THEN <<"**", "**", Head(text)>> \o highlight_text(Tail(text), query, case_sensitive)
        ELSE IF here
        THEN <<"**">> \o SubSeq(text, 1, n) \o <<"**">>
                 \o highlight_text(Drop(text, n), query, case_sensitive)
        ELSE <<Head(text)>> \o highlight_text(Tail(text), query, case_sensitive)

\* lines 135-142 and 145-152: the matches of one record's segments
RECURSIVE segment_matches_of(_, _, _)
segment_matches_of(segments, query, case_sensitive) ==
    IF segments = <<>> THEN <<>>
    ELSE (IF segment_matches(Head(segments), query, case_sensitive)
          THEN << [timestamp |-> Head(segments).start \o <<" ", "-", ">", " ">>
                                    \o Head(segments).end,
                   speaker |-> Head(segments).speaker,
                   text |-> Head(segments).text,
                   highlight |-> highlight_text(Head(segments).text, query,
                                                case_sensitive)] >>
          ELSE <<>>)
         \o segment_matches_of(Tail(segments), query, case_sensitive)

\* lines 126-152: the matches list of one record
matches_of(transcript, query, case_sensitive) ==
    IF IF case_sensitive
       THEN Contains(transcript.full_text, query)
       ELSE Contains(lower(transcript.full_text), lower(query))
    THEN segment_matches_of(transcript.segments, query, case_sensitive)
    ELSE <<>>


\* keyword_search that reports every record
RECURSIVE keyword_search_mut(_, _, _)
keyword_search_mut(self_transcripts, query, case_sensitive) ==
    IF self_transcripts = <<>> THEN <<>>
    ELSE LET transcript == Head(self_transcripts)
             matches == matches_of(transcript, query, case_sensitive)
         IN  << [file_name |-> transcript.file_name,
                 language |-> transcript.language,
                 matches |-> matches,
                 match_count |-> Len(matches)] >>
             \o keyword_search_mut(Tail(self_transcripts), query, case_sensitive)

\* keyword_search
RECURSIVE keyword_search(_, _, _)
keyword_search(self_transcripts, query, case_sensitive) ==
    IF self_transcripts = <<>> THEN <<>>
    ELSE LET transcript == Head(self_transcripts)
             matches == matches_of(transcript, query, case_sensitive)
         IN  (IF matches # <<>>
              THEN << [file_name |-> transcript.file_name,
                       language |-> transcript.language,
                       matches |-> matches,
                       match_count |-> Len(matches)] >>
              ELSE <<>>)
             \o keyword_search(Tail(self_transcripts), query, case_sensitive)

----------------------------------------------------------------------------
(* The search engine over folders of transcripts the pipeline has written *)

\* whisper results: language, segments (times in ticks) and full text
WhisperResults ==
    { [language |-> <<"en">>,
       segments |-> << [start |-> 0, end |-> 1, text |-> <<" ", "a", "B">>],
                       [start |-> 1, end |-> 3, text |-> <<" ", "A", "b", " ", "a">>] >>,
       text |-> <<" ", "a", "B", " ", "A", "b", " ", "a">>],
      [language |-> <<"ja">>,
       segments |-> << [start |-> 0, end |-> 1, text |-> <<" ", "b">>],
                       [start |-> 2, end |-> 3, text |-> <<" ">>] >>,
       text |-> <<" ", "b", " ">>],
      [language |-> <<"en">>, segments |-> <<>>, text |-> <<>>] }

\* what the diarization gives: no pipeline, or these turns
NoPipeline == [pipeline |-> FALSE, turns |-> <<>>]
Diarizations ==
    {NoPipeline,
     [pipeline |-> TRUE,
      turns |-> << [start |-> 0, end |-> 1, speaker |-> "SPEAKER_01"] >>]}

\* batch_processor.py:166-184 run over all turns
RECURSIVE align_turns(_, _, _)
align_turns(out, tns, segs) ==
    IF tns = <<>> THEN out
    ELSE align_turns(align_turn(out, Head(tns), segs), Tail(tns), segs)

\* batch_processor.py:145-206: what transcribe_audio_with_whisper hands to
\* the formatter
Transcript(result, diarization) ==
    LET aligned == IF ~diarization.pipeline
                   THEN fallback_segments(<<>>, result.segments)
                   ELSE align_turns(<<>>, diarization.turns, result.segments)
    IN  [language |-> result.language,
         duration |-> IF result.segments # <<>>
                      THEN timestamp_str(format_timestamp(
                               result.segments[Len(result.segments)].end))
                      ELSE <<"0", "0", ":", "0", "0", ":", "0", "0">>,
         segments |-> [i \in 1..Len(aligned) |-> SegmentDict(aligned[i])],
         full_text |-> result.text]

Transcripts == {Transcript(r, d) : r \in WhisperResults, d \in Diarizations}

\* batch_processor.py:211-229: the files written for one item; each file
\* remembers the Transcript it was written from
persisted(filename, fmt, t) ==
    (IF fmt \in {"txt", "both"}
     THEN << [name |-> filename \o TxtSuffix,
              content |-> format_txt(filename, t.language, t.duration, t.segments,
                                     t.full_text),
              transcript |-> t] >>
     ELSE <<>>)
    \o
    (IF fmt \in {"md", "both"}
     THEN << [name |-> filename \o MdSuffix,
              content |-> format_md(filename, t.language, t.duration, t.segments,
                                    t.full_text),
              transcript |-> t] >>
     ELSE <<>>)

\* base names of videos; the last is a video named "a_transcript.md.mp4"
PlainBase == <<"a">>
OtherBase == <<"b">>
SuffixedBase == <<"a", "_transcript", ".md">>

Reverse(s) == [i \in 1..Len(s) |-> s[Len(s) + 1 - i]]

OneTranscript == Transcript(CHOOSE r \in WhisperResults : r.language = <<"ja">>, NoPipeline)

\* the contents an output folder can have, in the order the file system
\* enumerates them
Listings ==
    {IF rev THEN Reverse(a \o b \o c) ELSE a \o b \o c :
        a \in {<<>>} \cup {persisted(PlainBase, "txt", t) : t \in Transcripts}
                     \cup {persisted(PlainBase, fmt, OneTranscript) : fmt \in {"md", "both"}},
        b \in {<<>>} \cup {persisted(OtherBase, fmt, OneTranscript) : fmt \in {"txt", "md"}},
        c \in {<<>>, persisted(SuffixedBase, "md", OneTranscript)},
        rev \in BOOLEAN}

\* a second folder of transcripts
ArchiveListing == persisted(OtherBase, "txt", Transcript(
                      CHOOSE r \in WhisperResults : Len(r.segments) = 2 /\ r.language = <<"en">>,
                      NoPipeline))

FolderArgs == {"output", "archive", "missing"}

\* output_path.exists() and the folder's files
listdir(fs, folder) ==
    IF folder \in DOMAIN fs THEN [exists |-> TRUE, files |-> fs[folder]] ELSE NoListing

\* files that fail in one call of index_transcripts
MaxFaults == 1

\* queries of keyword_search
Queries == {<<"a", "B">>, <<"b">>, <<>>}

NoIndexCall == [called |-> FALSE, folder |-> "", unique_files |-> <<>>,
                faults |-> <<>>, replaced |-> FALSE]
NoSearch == [called |-> FALSE, query |-> <<>>, case_sensitive |-> FALSE,
             results |-> <<>>]

\* the engine is used without the command line
NoArgs == [action |-> "", query |-> [given |-> FALSE, text |-> <<>>],
           case_sensitive |-> FALSE, output_folder |-> ""]

\* ask_question made no answering call
NoAnswer == "<no answering call>"

NoSemantic == [called |-> FALSE, query |-> <<>>, top_k |-> 0, sims |-> <<>>,
               strategy |-> "", results |-> <<>>, llm_calls |-> 0,
               encode_calls |-> 0]
NoAsk == [called |-> FALSE, question |-> <<>>, status |-> "", value |-> PyNone,
          strategy |-> "", relevant |-> FALSE, answer |-> NoAnswer,
          llm_calls |-> 0, encode_calls |-> 0]

SearchIdle ==
    /\ folders = [output |-> <<>>]
    /\ embeddings_available = FALSE
    /\ transcripts = <<>>
    /\ s_pc = "idle"
    /\ indexed = NoIndexCall
    /\ searched = NoSearch
    /\ engine_llm = NoProcessor
    /\ semantic = NoSemantic
    /\ asked = NoAsk
    /\ cli_args = NoArgs
    /\ stdout = <<>>
    /\ stderr = <<>>
    /\ cli_exit = NoExit

\* TranscriptSearchEngine(): lines 14-27
SearchInit ==
    /\ folders \in [output : Listings, archive : {ArchiveListing}]
    /\ embeddings_available \in BOOLEAN
    /\ transcripts = <<>>
    /\ s_pc = "ready"
    /\ indexed = NoIndexCall
    /\ searched = NoSearch
    /\ engine_llm = NoProcessor
    /\ semantic = NoSemantic
    /\ asked = NoAsk
    /\ cli_args = NoArgs
    /\ stdout = <<>>
    /\ stderr = <<>>
    /\ cli_exit = NoExit

\* engine.index_transcripts(folder)
IndexTranscripts ==
    /\ s_pc = "ready"
    /\ ~searched.called /\ ~semantic.called /\ ~asked.called
    /\ \E folder \in FolderArgs :
          LET listing == listdir(folders, folder)
              unique == unique_files(listing.files,
                                     transcript_files_of(listing.files), {})
          IN  \E faults \in [1..Len(unique) -> FaultKinds] :
                 /\ \A i \in 1..Len(unique) :
                        faults[i] = "encode" => embeddings_available
                 /\ Cardinality({i \in 1..Len(unique) : faults[i] # ""}) <= MaxFaults
                 /\ transcripts' = index_transcripts(transcripts, listing, folder,
                                                     faults, embeddings_available)
                 /\ indexed' = [called |-> TRUE, folder |-> folder,
                                unique_files |-> unique, faults |-> faults,
                                replaced |-> transcripts # <<>>]
    /\ UNCHANGED <<folders, embeddings_available, s_pc, searched, engine_llm,
                   semantic, asked, cliVars>>
    /\ UNCHANGED <<llmVars, batchVars, alignVars>>

\* engine.keyword_search(query, case_sensitive)
KeywordSearch ==
    /\ s_pc = "ready"
    /\ ~searched.called /\ ~semantic.called /\ ~asked.called
    /\ \E query \in Queries, case_sensitive \in BOOLEAN :
          searched' = [called |-> TRUE, query |-> query,
                       case_sensitive |-> case_sensitive,
                       results |-> keyword_search(transcripts, query, case_sensitive)]
    /\ UNCHANGED <<folders, embeddings_available, transcripts, s_pc, indexed,
                   engine_llm, semantic, asked, cliVars>>
    /\ UNCHANGED <<llmVars, batchVars, alignVars>>

----------------------------------------------------------------------------
(* main() from its first line: the transcription engine is loaded, then the
   items are processed (batch_processor.py:54-98, 370) *)

\* lines 68-77: CUDA, else MPS, else CPU
preferred_device(t) == IF t.cuda THEN "cuda" ELSE IF t.mps THEN "mps" ELSE "cpu"

\* what a call of whisper.load_model does
LoadOutcomes == {"ok", "Exception", "KeyboardInterrupt"}

\* the except clause that loads on CPU whatever the device was
fallback_due_mut(device, exc) == ExceptException(exc)

\* lines 88-89: the first attempt raised exc; a second attempt is due
fallback_due(device, exc) == ExceptException(exc) /\ device # "cpu"

\* base names of the input videos (file name without extension), as parts
BaseNames == {<<"a">>, <<"a", "_temp">>, <<"b">>}

\* the video lists of a run: none, one or two videos with different base
\* names
NamedVideoLists ==
    {<<>>}
    \cup {<< [exists |-> e, name |-> x] >> : e \in BOOLEAN, x \in BaseNames}
    \cup UNION {{<< [exists |-> TRUE, name |-> x], [exists |-> TRUE, name |-> y] >> :
                    y \in BaseNames \ {x}} : x \in BaseNames}

\* lines 203-205: filename[:-5] when filename ends with "_temp"
strip_temp(filename) ==
    IF EndsWith(filename, <<"_temp">>)
    THEN SubSeq(filename, 1, Len(filename) - 1)
    ELSE filename

\* the file of the output folder an item with the given base name writes
\* for a kind: lines 37-38 (mp3), 118 (wav), 203-222 (transcripts) and
\* 286-300 (enhanced transcripts)
output_path(name, kind) ==
    CASE kind = "mp3" -> name \o <<".mp3">>
      [] kind = "wav" -> name \o <<"_temp", ".wav">>
      [] kind = "transcript_txt" -> strip_temp(name) \o <<"_transcript", ".txt">>
      [] kind = "transcript_md" -> strip_temp(name) \o <<"_transcript", ".md">>
      [] kind = "enhanced_txt" -> name \o <<"_enhanced", ".txt">>
      [] kind = "enhanced_md" -> name \o <<"_enhanced", ".md">>

\* main() is entered
MainInit ==
    /\ video_files \in NamedVideoLists
    /\ output_format \in OutputFormats
    /\ diarization_pipeline \in BOOLEAN
    /\ llm_processor \in Processors
    /\ b_pc = "load"
    /\ index = 1
    /\ total = Len(video_files)
    /\ successful = 0
    /\ failed = 0
    /\ exit_code = NoExit
    /\ files = {}
    /\ items = <<>>
    /\ propagating = ""
    /\ torch \in [cuda : BOOLEAN, mps : BOOLEAN]
    /\ load_attempts = <<>>
    /\ whisper_model = PyNone

\* load_whisper_model, lines 68-89 and 97-98: the attempt on the preferred
\* device
LoadWhisperModel ==
    /\ b_pc = "load"
    /\ LET device == preferred_device(torch)
       IN  \E outcome \in LoadOutcomes :
              /\ load_attempts' = Append(load_attempts,
                                         [device |-> device, outcome |-> outcome])
              /\ IF outcome = "ok"
                 THEN /\ whisper_model' = device
                      /\ b_pc' = "loop"
                      /\ UNCHANGED <<exit_code, propagating>>
                 ELSE IF fallback_due(device, outcome)
                 THEN /\ b_pc' = "fallback"
                      /\ UNCHANGED <<whisper_model, exit_code, propagating>>
                 ELSE /\ b_pc' = "aborted"
                      /\ propagating' = outcome
                      /\ exit_code' = 1
                      /\ UNCHANGED whisper_model
    /\ UNCHANGED <<video_files, output_format, diarization_pipeline, llm_processor,
                   index, total, successful, failed, files, items, torch>>
    /\ UNCHANGED <<llmVars, alignVars, searchVars>>

\* lines 90-96: the attempt on CPU
LoadFallback ==
    /\ b_pc = "fallback"
    /\ \E outcome \in LoadOutcomes :
          /\ load_attempts' = Append(load_attempts,
                                     [device |-> "cpu", outcome |-> outcome])
          /\ IF outcome = "ok"
             THEN /\ whisper_model' = "cpu"
                  /\ b_pc' = "loop"
                  /\ UNCHANGED <<exit_code, propagating>>
             ELSE /\ b_pc' = "aborted"
                  /\ propagating' = outcome
                  /\ exit_code' = 1
                  /\ UNCHANGED whisper_model
    /\ UNCHANGED <<video_files, output_format, diarization_pipeline, llm_processor,
                   index, total, successful, failed, files, items, torch>>
    /\ UNCHANGED <<llmVars, alignVars, searchVars>>

----------------------------------------------------------------------------
(* Semantic search and question answering (search_engine.py:164-308) *)

\* similarities in tenths: `score > 0.3` of lines 193 and 266
Threshold == 3

\* the similarities the embedding model can yield (tenths)
ScoreGrid == {1, 3, 4, 9}

\* s[:n] for n >= 0
Take(s, n) == SubSeq(s, 1, IF n < Len(s) THEN n ELSE Len(s))

\* list.sort(key=lambda x: x[1], reverse=True) is stable: one more pair put
\* behind every pair whose score is not lower
RECURSIVE insert_desc(_, _)
insert_desc(sorted, x) ==
    IF sorted = <<>> THEN <<x>>
    ELSE IF Head(sorted)[2] >= x[2]
         THEN <<Head(sorted)>> \o insert_desc(Tail(sorted), x)
         ELSE <<x>> \o sorted

RECURSIVE sort_desc(_, _)
sort_desc(sorted, rest) ==
    IF rest = <<>> THEN sorted
    ELSE sort_desc(insert_desc(sorted, Head(rest)), Tail(rest))

\* how the embedding model scores the segments of a record against the
\* query: all close to it, or the first far from it
SegmentOracles == {"close", "mixed"}
segment_similarity(oracle, k) ==
    IF oracle = "close" THEN 9 ELSE IF k = 1 THEN 1 ELSE 4

\* _find_relevant_segments, lines 240-267
find_relevant_segments(transcript, embeddings, oracle, top_n) ==
    IF ~embeddings
    THEN Take(transcript.segments, top_n)
    ELSE LET segment_scores ==
                 sort_desc(<<>>, [k \in 1..Len(transcript.segments) |->
                                     <<k, segment_similarity(oracle, k)>>])
             above == SelectSeq(Take(segment_scores, top_n),
                                LAMBDA p : p[2] > Threshold)
         IN  [j \in 1..Len(above) |->
                 LET seg == transcript.segments[above[j][1]]
                 IN  [timestamp |-> seg.start \o <<" ", "-", ">", " ">> \o seg.end,
                      speaker |-> seg.speaker,
                      text |-> seg.text,
                      relevance_score |-> above[j][2]]]

\* lines 180-187: (i, similarity) for the records that have an embedding
RECURSIVE scores_of(_, _, _)
scores_of(self_transcripts, sims, i) ==
    IF i > Len(self_transcripts) THEN <<>>
    ELSE (IF self_transcripts[i].embedding.present
          THEN << <<i, sims[i]>> >> ELSE <<>>)
         \o scores_of(self_transcripts, sims, i + 1)

\* lines 193-205: the result built from one (idx, score)
embedding_result(self_transcripts, embeddings, oracle, p) ==
    LET transcript == self_transcripts[p[1]]
        relevant_segments == find_relevant_segments(transcript, embeddings, oracle, 3)
    IN  [file_name |-> transcript.file_name,
         language |-> transcript.language,
         similarity_score |-> p[2],
         matches |-> relevant_segments,
         match_count |-> Len(relevant_segments)]

\* lines 245 and 249: the calls of encode that _find_relevant_segments makes
\* for the results kept
RECURSIVE segment_encodes(_, _, _)
segment_encodes(self_transcripts, embeddings, kept) ==
    IF kept = <<>> THEN 0
    ELSE (IF embeddings
          THEN 1 + Len(self_transcripts[Head(kept)[1]].segments) ELSE 0)
         + segment_encodes(self_transcripts, embeddings, Tail(kept))

\* _embedding_search with the threshold test `score >= 0.3`
embedding_search_mut(self_transcripts, embeddings, sims, oracle, top_k) ==
    LET scores == sort_desc(<<>>, scores_of(self_transcripts, sims, 1))
        kept == SelectSeq(Take(scores, top_k), LAMBDA p : p[2] >= Threshold)
    IN  [results |-> [j \in 1..Len(kept) |->
                         embedding_result(self_transcripts, embeddings, oracle, kept[j])],
         llm_calls |-> 0,
         encode_calls |-> 1 + segment_encodes(self_transcripts, embeddings, kept)]

\* _embedding_search, lines 174-207. encode_calls: calls of
\* embedding_model.encode; llm_calls: calls of llm_processor.process
embedding_search(self_transcripts, embeddings, sims, oracle, top_k) ==
    LET scores == sort_desc(<<>>, scores_of(self_transcripts, sims, 1))
        kept == SelectSeq(Take(scores, top_k), LAMBDA p : p[2] > Threshold)
    IN  [results |-> [j \in 1..Len(kept) |->
                         embedding_result(self_transcripts, embeddings, oracle, kept[j])],
         llm_calls |-> 0,
         encode_calls |-> 1 + segment_encodes(self_transcripts, embeddings, kept)]

\* what the backend answers to the relevance prompt of lines 214-221
ClassifierOutcomes == {"relevant", "irrelevant", "none", "raise"}

\* `"true" in response.lower()`
says_true(response) == response = "{\"relevant\": true}"

\* _llm_search, lines 209-238: one call of process per record
RECURSIVE llm_results(_, _, _, _)
llm_results(self_transcripts, gateway, answers, i) ==
    IF i > Len(self_transcripts) THEN <<>>
    ELSE LET transcript == self_transcripts[i]
             r == process(gateway, transcript.full_text, "clean",
                          transcript.language, answers[i])
         IN  (IF r.status = "return" /\ Truthy(r.value) /\ says_true(r.value)
              THEN << [file_name |-> transcript.file_name,
                       language |-> transcript.language,
                       llm_analysis |-> r.value,
                       matches |-> Take(transcript.segments, 3)] >>
              ELSE <<>>)
             \o llm_results(self_transcripts, gateway, answers, i + 1)

llm_search(self_transcripts, gateway, answers, top_k) ==
    [results |-> Take(llm_results(self_transcripts, gateway, answers, 1), top_k),
     llm_calls |-> Len(self_transcripts),
     encode_calls |-> 0]

\* semantic_search that asks the gateway first
semantic_search_mut(self_transcripts, embeddings, gateway, query, top_k, oracle) ==
    IF gateway # NoProcessor /\ gateway.provider # "none"
    THEN [strategy |-> "llm"] @@
         llm_search(self_transcripts, gateway, oracle.answers, top_k)
    ELSE IF embeddings
    THEN [strategy |-> "embedding"] @@
         embedding_search(self_transcripts, embeddings, oracle.sims,
                          oracle.segments, top_k)
    ELSE [strategy |-> "keyword",
          results |-> keyword_search(self_transcripts, query, FALSE),
          llm_calls |-> 0, encode_calls |-> 0]

\* semantic_search, lines 164-172
semantic_search(self_transcripts, embeddings, gateway, query, top_k, oracle) ==
    IF embeddings
    THEN [strategy |-> "embedding"] @@
         embedding_search(self_transcripts, embeddings, oracle.sims,
                          oracle.segments, top_k)
    ELSE IF gateway # NoProcessor /\ gateway.provider # "none"
    THEN [strategy |-> "llm"] @@
         llm_search(self_transcripts, gateway, oracle.answers, top_k)
    ELSE [strategy |-> "keyword",
          results |-> keyword_search(self_transcripts, query, FALSE),
          llm_calls |-> 0, encode_calls |-> 0]

\* line 280: the engine holds a gateway and its provider is not "none"
HasGateway == engine_llm # NoProcessor /\ engine_llm.provider # "none"

NotEnabledMessage == "LLM is not enabled. Please enable LLM post-processing to use the Q&A feature."
NothingFoundMessage == "I couldn't find any relevant information in the transcripts to answer your question."
ErrorGeneratingAnswer == "Error generating answer: "

\* ask_question, lines 278-308. relevant: whether the search found records;
\* answer: what the answering call of process returned, NoAnswer when
\* ask_question made none
ask_question(self_transcripts, embeddings, gateway, question, oracle, backend) ==
    IF gateway = NoProcessor \/ gateway.provider = "none"
    THEN [status |-> "return", value |-> NotEnabledMessage, strategy |-> "",
          relevant |-> FALSE, answer |-> NoAnswer,
          llm_calls |-> 0, encode_calls |-> 0]
    ELSE LET s == semantic_search(self_transcripts, embeddings, gateway,
                                  question, 3, oracle)
         IN  IF s.results = <<>>
             THEN [status |-> "return", value |-> NothingFoundMessage,
                   strategy |-> s.strategy, relevant |-> FALSE, answer |-> NoAnswer,
                   llm_calls |-> s.llm_calls, encode_calls |-> s.encode_calls]
             ELSE LET r == process(gateway, question, "clean", "auto", backend)
                  IN  [status |-> IF r.status = "raise" /\ ~ExceptException(r.value)
                                  THEN "raise" ELSE "return",
                       value |-> IF r.status = "raise"
                                 THEN (IF ExceptException(r.value)
                                       THEN ErrorGeneratingAnswer ELSE r.value)
                                 ELSE r.value,
                       strategy |-> s.strategy, relevant |-> TRUE,
                       answer |-> IF r.status = "raise" THEN NoAnswer ELSE r.value,
                       llm_calls |-> s.llm_calls + 1,
                       encode_calls |-> s.encode_calls]

\* the folders of the question-answering runs: up to two transcripts in the
\* output folder
ThirdBase == <<"c">>
QAListings ==
    {<<>>,
     persisted(PlainBase, "txt", OneTranscript),
     persisted(PlainBase, "txt", OneTranscript) \o ArchiveListing,
     persisted(ThirdBase, "md", OneTranscript) \o ArchiveListing}

Questions == {<<"b">>, <<"a", "B">>}
TopKs == {0, 1, 5}

\* what the models do during one search: the similarity of each record, of
\* its segments, and the backend's answer about each record
Oracles(n, embeddings) ==
    IF embeddings
    THEN [sims : [1..n -> ScoreGrid], segments : SegmentOracles,
          answers : {[i \in 1..n |-> "none"]}]
    ELSE [sims : {[i \in 1..n |-> 1]}, segments : {"close"},
          answers : [1..n -> ClassifierOutcomes]]

\* search_handler.py:18-33: the engine built with the gateway the
\* configuration yields
QAInit ==
    /\ folders \in [output : QAListings, archive : {ArchiveListing}]
    /\ embeddings_available \in BOOLEAN
    /\ engine_llm \in Processors
    /\ transcripts = <<>>
    /\ s_pc = "ready"
    /\ indexed = NoIndexCall
    /\ searched = NoSearch
    /\ semantic = NoSemantic
    /\ asked = NoAsk
    /\ cli_args = NoArgs
    /\ stdout = <<>>
    /\ stderr = <<>>
    /\ cli_exit = NoExit

\* engine.semantic_search(query, top_k)
SemanticSearch ==
    /\ s_pc = "ready"
    /\ ~searched.called /\ ~semantic.called /\ ~asked.called
    /\ \E query \in Questions, top_k \in TopKs,
          oracle \in Oracles(Len(transcripts), embeddings_available) :
          LET r == semantic_search(transcripts, embeddings_available, engine_llm,
                                   query, top_k, oracle)
          IN  semantic' = [called |-> TRUE, query |-> query, top_k |-> top_k,
                           sims |-> oracle.sims, strategy |-> r.strategy,
                           results |-> r.results, llm_calls |-> r.llm_calls,
                           encode_calls |-> r.encode_calls]
    /\ UNCHANGED <<folders, embeddings_available, transcripts, s_pc, indexed,
                   searched, engine_llm, asked, cliVars>>
    /\ UNCHANGED <<llmVars, batchVars, alignVars>>

\* engine.ask_question(question)
AskQuestion ==
    /\ s_pc = "ready"
    /\ ~searched.called /\ ~semantic.called /\ ~asked.called
    /\ \E question \in Questions, backend \in BackendOutcomes,
          oracle \in Oracles(Len(transcripts), embeddings_available) :
          LET r == ask_question(transcripts, embeddings_available, engine_llm,
                                question, oracle, backend)
          IN  asked' = [called |-> TRUE, question |-> question] @@ r
    /\ UNCHANGED <<folders, embeddings_available, transcripts, s_pc, indexed,
                   searched, engine_llm, semantic, cliVars>>
    /\ UNCHANGED <<llmVars, batchVars, alignVars>>

----------------------------------------------------------------------------
(* The search command line (search_handler.py) *)

\* what print writes: a line of text, or json.dumps of an object with the
\* given key
TextLine(text) == [kind |-> "text", key |-> "", body |-> text]
JsonObject(key, body) == [kind |-> "json", key |-> key, body |-> body]

Actions == {"index", "keyword", "semantic", "ask", "export"}
QueryArgs == {[given |-> FALSE, text |-> <<>>], [given |-> TRUE, text |-> <<>>],
              [given |-> TRUE, text |-> <<"b">>]}

\* --llm-config: absent, not valid JSON, not enabled, or enabled with a
\* provider
LLMConfigs ==
    {[given |-> FALSE, valid |-> TRUE, enabled |-> FALSE, provider |-> "none"],
     [given |-> TRUE, valid |-> FALSE, enabled |-> FALSE, provider |-> "none"],
     [given |-> TRUE, valid |-> TRUE, enabled |-> FALSE, provider |-> "openai"]}
    \cup {[given |-> TRUE, valid |-> TRUE, enabled |-> TRUE, provider |-> p] :
             p \in {"none", "openai", "llamacpp"}}

\* `not args.query`
no_query(query) == ~query.given \/ query.text = <<>>

\* llm_processor.py:45-49: the warning _initialize_client prints
init_prints(provider, outcome) ==
    IF Lower(provider) \in Backends /\ outcome \in ExceptionClasses
    THEN << TextLine("Warning: library not installed / failed to initialize") >>
    ELSE <<>>

\* search_engine.py:27
engine_prints(embeddings) ==
    IF embeddings THEN <<>>
    ELSE << TextLine("Warning: sentence-transformers not installed.") >>

\* search_engine.py:71 and 73: one line per file that failed, then the
\* count; nothing when the folder does not exist (line 36)
RECURSIVE error_prints(_)
error_prints(faults) ==
    IF faults = <<>> THEN <<>>
    ELSE (IF Head(faults) # "" THEN << TextLine("Error indexing") >> ELSE <<>>)
         \o error_prints(Tail(faults))

index_prints(listing, faults) ==
    IF ~listing.exists THEN <<>>
    ELSE error_prints(faults) \o << TextLine("Indexed N transcripts") >>

\* llm_processor.py:69: one line per generation call that raised
RECURSIVE process_prints(_, _)
process_prints(gateway, backends) ==
    IF backends = <<>> THEN <<>>
    ELSE (IF gateway.provider \in Backends /\ Head(backends) = "raise"
          THEN << TextLine("Error processing") >> ELSE <<>>)
         \o process_prints(gateway, Tail(backends))

\* search_handler.py:14-33: arguments parsed; the gateway and the engine
\* are built
CliConstruct ==
    /\ s_pc = "main"
    /\ \E config \in LLMConfigs, outcome \in InitOutcomes \ {"ImportError"} :
          /\ (config.given /\ config.valid /\ config.enabled) \/ outcome = "ok"
          /\ IF config.given /\ config.valid /\ config.enabled
             THEN /\ engine_llm' = LLMProcessor(config.provider, PyNone, PyNone, outcome)
                  /\ stdout' = stdout \o init_prints(config.provider, outcome)
                                      \o engine_prints(embeddings_available)
                  /\ stderr' = stderr
             ELSE /\ engine_llm' = NoProcessor
                  /\ stdout' = stdout \o engine_prints(embeddings_available)
                  /\ stderr' = IF config.given /\ ~config.valid
                               THEN Append(stderr,
                                           TextLine("Warning: Failed to initialize LLM"))
                               ELSE stderr
    /\ s_pc' = "index"
    /\ UNCHANGED <<folders, embeddings_available, transcripts, indexed, searched,
                   semantic, asked, cli_args, cli_exit>>
    /\ UNCHANGED <<llmVars, batchVars, alignVars>>

\* line 36: search_engine.index_transcripts(args.output_folder)
CliIndex ==
    /\ s_pc = "index"
    /\ LET listing == listdir(folders, cli_args.output_folder)
           unique == unique_files(listing.files,
                                  transcript_files_of(listing.files), {})
       IN  \E faults \in [1..Len(unique) -> FaultKinds] :
              /\ \A i \in 1..Len(unique) :
                     faults[i] = "encode" => embeddings_available
              /\ Cardinality({i \in 1..Len(unique) : faults[i] # ""}) <= MaxFaults
              /\ transcripts' = index_transcripts(transcripts, listing,
                                                  cli_args.output_folder, faults,
                                                  embeddings_available)
              /\ indexed' = [called |-> TRUE, folder |-> cli_args.output_folder,
                             unique_files |-> unique, faults |-> faults,
                             replaced |-> FALSE]
              /\ stdout' = stdout \o index_prints(listing, faults)
    /\ s_pc' = "action"
    /\ UNCHANGED <<folders, embeddings_available, searched, engine_llm, semantic,
                   asked, cli_args, stderr, cli_exit>>
    /\ UNCHANGED <<llmVars, batchVars, alignVars>>

\* lines 38-40
CliActionIndex ==
    /\ s_pc = "action"
    /\ cli_args.action = "index"
    /\ stdout' = Append(stdout, JsonObject("success", Len(transcripts)))
    /\ s_pc' = "done"
    /\ cli_exit' = 0
    /\ UNCHANGED <<folders, embeddings_available, transcripts, indexed, searched,
                   engine_llm, semantic, asked, cli_args, stderr>>
    /\ UNCHANGED <<llmVars, batchVars, alignVars>>

\* lines 42-44
CliQueryRequired ==
    /\ s_pc = "action"
    /\ cli_args.action # "index"
    /\ no_query(cli_args.query)
    /\ stderr' = Append(stderr, JsonObject("error", "Query required"))
    /\ s_pc' = "done"
    /\ cli_exit' = 1
    /\ UNCHANGED <<folders, embeddings_available, transcripts, indexed, searched,
                   engine_llm, semantic, asked, cli_args, stdout>>
    /\ UNCHANGED <<llmVars, batchVars, alignVars>>

\* lines 47-49
CliKeyword ==
    /\ s_pc = "action"
    /\ cli_args.action = "keyword"
    /\ ~no_query(cli_args.query)
    /\ LET results == keyword_search(transcripts, cli_args.query.text,
                                     cli_args.case_sensitive)
       IN  /\ searched' = [called |-> TRUE, query |-> cli_args.query.text,
                           case_sensitive |-> cli_args.case_sensitive,
                           results |-> results]
           /\ stdout' = Append(stdout, JsonObject("success", results))
    /\ s_pc' = "done"
    /\ cli_exit' = 0
    /\ UNCHANGED <<folders, embeddings_available, transcripts, indexed,
                   engine_llm, semantic, asked, cli_args, stderr>>
    /\ UNCHANGED <<llmVars, batchVars, alignVars>>

\* lines 51-53: semantic_search(args.query, top_k=5)
CliSemantic ==
    /\ s_pc = "action"
    /\ cli_args.action = "semantic"
    /\ ~no_query(cli_args.query)
    /\ \E oracle \in Oracles(Len(transcripts), embeddings_available) :
          LET r == semantic_search(transcripts, embeddings_available, engine_llm,
                                   cli_args.query.text, 5, oracle)
          IN  /\ semantic' = [called |-> TRUE, query |-> cli_args.query.text,
                              top_k |-> 5, sims |-> oracle.sims,
                              strategy |-> r.strategy, results |-> r.results,
                              llm_calls |-> r.llm_calls,
                              encode_calls |-> r.encode_calls]
              /\ stdout' = stdout
                           \o (IF r.strategy = "llm"
                               THEN process_prints(engine_llm, oracle.answers)
                               ELSE <<>>)
                           \o << JsonObject("success", r.results) >>
    /\ s_pc' = "done"
    /\ cli_exit' = 0
    /\ UNCHANGED <<folders, embeddings_available, transcripts, indexed, searched,
                   engine_llm, asked, cli_args, stderr>>
    /\ UNCHANGED <<llmVars, batchVars, alignVars>>

\* lines 55-57
CliAsk ==
    /\ s_pc = "action"
    /\ cli_args.action = "ask"
    /\ ~no_query(cli_args.query)
    /\ \E backend \in BackendOutcomes,
          oracle \in Oracles(Len(transcripts), embeddings_available) :
          LET r == ask_question(transcripts, embeddings_available, engine_llm,
                                cli_args.query.text, oracle, backend)
          IN  /\ asked' = [called |-> TRUE, question |-> cli_args.query.text] @@ r
              /\ stdout' = stdout
                           \o (IF r.strategy = "llm"
                               THEN process_prints(engine_llm, oracle.answers)
                               ELSE <<>>)
                           \o (IF r.relevant
                               THEN process_prints(engine_llm, <<backend>>)
                               ELSE <<>>)
                           \o << JsonObject("success", r.value) >>
    /\ s_pc' = "done"
    /\ cli_exit' = 0
    /\ UNCHANGED <<folders, embeddings_available, transcripts, indexed, searched,
                   engine_llm, semantic, cli_args, stderr>>
    /\ UNCHANGED <<llmVars, batchVars, alignVars>>

\* lines 59-61
CliUnknownAction ==
    /\ s_pc = "action"
    /\ cli_args.action \notin {"index", "keyword", "semantic", "ask"}
    /\ ~no_query(cli_args.query)
    /\ stderr' = Append(stderr, JsonObject("error", "Unknown action"))
    /\ s_pc' = "done"
    /\ cli_exit' = 1
    /\ UNCHANGED <<folders, embeddings_available, transcripts, indexed, searched,
                   engine_llm, semantic, asked, cli_args, stdout>>
    /\ UNCHANGED <<llmVars, batchVars, alignVars>>

\* lines 63-65: the embedding model raises while encoding the query
\* (search_engine.py:176)
CliSearchRaises ==
    /\ s_pc = "action"
    /\ cli_args.action = "semantic" \/ (cli_args.action = "ask" /\ HasGateway)
    /\ ~no_query(cli_args.query)
    /\ embeddings_available
    /\ stderr' = Append(stderr, JsonObject("error", "Exception"))
    /\ s_pc' = "done"
    /\ cli_exit' = 1
    /\ UNCHANGED <<folders, embeddings_available, transcripts, indexed, searched,
                   engine_llm, semantic, asked, cli_args, stdout>>
    /\ UNCHANGED <<llmVars, batchVars, alignVars>>

\* the process as main() finds it: the folders, whether
\* sentence_transformers can be imported, and sys.argv
CliInit ==
    /\ folders \in [output : QAListings, archive : {ArchiveListing}]
    /\ embeddings_available \in BOOLEAN
    /\ engine_llm = NoProcessor
    /\ transcripts = <<>>
    /\ s_pc = "main"
    /\ indexed = NoIndexCall
    /\ searched = NoSearch
    /\ semantic = NoSemantic
    /\ asked = NoAsk
    /\ cli_args \in [action : Actions, query : QueryArgs,
                     case_sensitive : BOOLEAN, output_folder : FolderArgs]
    /\ stdout = <<>>
    /\ stderr = <<>>
    /\ cli_exit = NoExit

----------------------------------------------------------------------------
(* The specifications *)

LLMNext == LLMConstruct \/ LLMProcess
InitLLM == LLMInit /\ BatchIdle /\ AlignIdle /\ SearchIdle
SpecLLM == InitLLM /\ [][LLMNext]_vars

BatchNext ==
    \/ MainSkipMissing
    \/ MainCallProcessVideo
    \/ MainExit
    \/ ConvertVideoToMp3
    \/ Resample
    \/ Transcribe
    \/ Align
    \/ Persist
    \/ Enhance
    \/ Interrupt
InitBatch == BatchInit /\ LLMIdle /\ AlignIdle /\ SearchIdle
SpecBatch == InitBatch /\ [][BatchNext]_vars

MainNext ==
    \/ LoadWhisperModel
    \/ LoadFallback
    \/ MainSkipMissing
    \/ MainCallProcessVideo
    \/ MainExit
    \/ ConvertVideoToMp3
    \/ Resample
    \/ Transcribe
    \/ Align
    \/ Persist
    \/ Enhance
    \/ Interrupt
InitMain == MainInit /\ LLMIdle /\ AlignIdle /\ SearchIdle
SpecMain == InitMain /\ [][MainNext]_vars

AlignNext ==
    \/ AlignNoPipeline
    \/ AlignDiarize
    \/ AlignTurn
    \/ AlignTurnsEnd
    \/ AlignDiarizationRaises
InitAlign == AlignInit /\ LLMIdle /\ BatchIdle /\ SearchIdle

SearchNext == IndexTranscripts \/ KeywordSearch
InitSearch == SearchInit /\ LLMIdle /\ BatchIdle /\ AlignIdle
SpecSearch == InitSearch /\ [][SearchNext]_vars

QANext == IndexTranscripts \/ SemanticSearch \/ AskQuestion
InitQA == QAInit /\ LLMIdle /\ BatchIdle /\ AlignIdle
SpecQA == InitQA /\ [][QANext]_vars

CliNext ==
    \/ CliConstruct
    \/ CliIndex
    \/ CliActionIndex
    \/ CliQueryRequired
    \/ CliKeyword
    \/ CliSemantic
    \/ CliAsk
    \/ CliUnknownAction
    \/ CliSearchRaises
InitCli == CliInit /\ LLMIdle /\ BatchIdle /\ AlignIdle
SpecCli == InitCli /\ [][CliNext]_vars
SpecAlign == InitAlign /\ [][AlignNext]_vars

----------------------------------------------------------------------------
(* Properties of the batch run *)

Finished(k) == items[k].outcome # "pending"
FilesOf(k) == {f[2] : f \in {g \in files : g[1] = k}}

\* C1: when the item loop has run to its end, succeeded + failed = N = total
\* and the exit status is 0 exactly when failed = 0 (so an empty list exits 0).
C1_CountersAndExitStatus ==
    b_pc = "done" =>
        /\ successful + failed = Len(video_files)
        /\ total = Len(video_files)
        /\ (exit_code = 0 <=> failed = 0)
        /\ exit_code \in {0, 1}

C1_Witness ==
    /\ b_pc = "done"
    /\ Len(video_files) = MaxVideos
    /\ failed = 1
    /\ successful = MaxVideos - 1
    /\ exit_code = 1

\* C2: an exception raised by stage 1 or stage 2 of an item marks that item
\* failed and never ends the loop: no Exception leaves main(), the items are
\* visited once each in list order, all of them by the end of the loop, and
\* an item's outcome is decided by its own fault alone.
C2_StageFailureIsolated ==
    /\ propagating \notin ExceptionClasses
    /\ \A k \in 1..Len(items) : items[k].index = k
    /\ Len(items) <= Len(video_files)
    /\ (b_pc = "done" => Len(items) = Len(video_files))
    /\ \A k \in 1..Len(items) :
          /\ (items[k].fault \in {"extraction", "transcription"} =>
                  items[k].outcome = "failed")
          /\ (Finished(k) => (items[k].outcome = "failed" <=> items[k].fault # ""))

C2_Witness ==
    /\ b_pc = "done"
    /\ Len(items) = 3
    /\ items[1].fault = "extraction" /\ items[1].outcome = "failed"
    /\ items[2].fault = "transcription" /\ items[2].outcome = "failed"
    /\ items[3].outcome = "ok"

\* C3: an item whose input file does not exist is counted failed and none of
\* its stages is started; at the end the succeeded count is the number of
\* successes among the other items and the exit status is non-zero.
C3_MissingInputFile ==
    LET missing == {k \in 1..Len(items) : ~video_files[k].exists}
    IN  /\ \A k \in missing :
              /\ items[k].outcome = "failed"
              /\ items[k].started = {}
              /\ FilesOf(k) = {}
        /\ (b_pc = "done" /\ missing # {} =>
              /\ failed >= Cardinality(missing)
              /\ successful = Cardinality({j \in 1..Len(items) \ missing :
                                              items[j].outcome = "ok"})
              /\ exit_code # 0)

C3_Witness ==
    /\ b_pc = "done"
    /\ Len(video_files) = 3
    /\ ~video_files[2].exists
    /\ items[1].outcome = "ok"
    /\ items[3].outcome = "ok"
    /\ successful = 2
    /\ failed = 1

RequestedEnhanced ==
    CASE output_format = "txt"  -> {"enhanced_txt"}
      [] output_format = "md"   -> {"enhanced_md"}
      [] output_format = "both" -> {"enhanced_txt", "enhanced_md"}

C5_TempWavRemovedOnEveryExit ==
    b_pc \notin {"resample", "transcribe", "align", "persist"} =>
        \A f \in files : f[2] # "wav"

----------------------------------------------------------------------------
(* Properties of the alignment *)

AlignedTexts == [i \in 1..Len(segments_with_speakers) |-> segments_with_speakers[i].text]

\* C6: if the diarization engine is absent, or raises when invoked or while
\* its turns are iterated, the output is exactly one segment per whisper
\* segment, in order, each labelled SPEAKER_00.
C6_FallbackOnePerRawSegment ==
    (a_pc = "done" /\ (~diar.present \/ diar.raised_after # NoRaise)) =>
        /\ Len(segments_with_speakers) = Len(whisper_segments)
        /\ \A i \in 1..Len(segments_with_speakers) :
              /\ segments_with_speakers[i].speaker = "SPEAKER_00"
              /\ segments_with_speakers[i].start = format_timestamp(whisper_segments[i].start)
              /\ segments_with_speakers[i].end = format_timestamp(whisper_segments[i].end)
              /\ segments_with_speakers[i].text = Strip(whisper_segments[i].text)

\* the whisper segments lying inside a turn, in their order
ContainedSegments(turn) ==
    SelectSeq(whisper_segments, LAMBDA w : turn.start <= w.start /\ w.end <= turn.end)

\* texts joined by single spaces
RECURSIVE JoinWithSpaces(_)
JoinWithSpaces(ws) ==
    IF ws = <<>> THEN <<>>
    ELSE IF Len(ws) = 1 THEN ws[1].text
    ELSE ws[1].text \o <<" ">> \o JoinWithSpaces(Tail(ws))

\* the texts of the segments the first n turns give, stripped or as joined
RECURSIVE JoinedTexts(_, _)
JoinedTexts(n, stripped) ==
    IF n = 0 THEN <<>>
    ELSE LET joined == JoinWithSpaces(ContainedSegments(turns[n]))
             before == JoinedTexts(n - 1, stripped)
         IN  IF Strip(joined) = <<>> THEN before
             ELSE Append(before, IF stripped THEN Strip(joined) ELSE joined)

Diarized == diar.present /\ diar.raised_after = NoRaise /\ a_pc \in {"turns", "done"}

\* C7 (as amended): in the diarized path each segment's text is the texts of
\* the whisper segments lying inside its turn, joined by single spaces in
\* their order, with the whitespace at both ends of the joined text removed.
C7_TextIsStrippedJoin ==
    Diarized => AlignedTexts = JoinedTexts(turn_i, TRUE)

\* C7 (as claimed): the text equals the joined texts themselves.
C7_TextIsExactJoin ==
    Diarized => AlignedTexts = JoinedTexts(turn_i, FALSE)

C7_Witness ==
    /\ Diarized
    /\ a_pc = "done"
    /\ Len(turns) = 2
    /\ Len(segments_with_speakers) = 1
    /\ Len(whisper_segments) = 2
    /\ segments_with_speakers[1].text = <<"a", " ", " ", "b">>

Seconds(stamp) == 3600 * stamp.hours + 60 * stamp.minutes + stamp.secs

\* C8: the segments written are in non-decreasing order of start time on
\* every path: diarized, no pipeline, and diarization raising.
C8_StartsNonDecreasing ==
    a_pc = "done" =>
        \A i \in 1..Len(segments_with_speakers), j \in 1..Len(segments_with_speakers) :
            i < j => Seconds(segments_with_speakers[i].start)
                        <= Seconds(segments_with_speakers[j].start)

----------------------------------------------------------------------------
(* Properties of the gateway *)

\* C9: when the client of the named backend cannot be initialized (an
\* ImportError or any other Exception), the construction does not raise and
\* leaves provider = "none": the caller's check finds the gateway inactive,
\* and process on it calls no backend.
C9_ConstructionDegrades ==
    (l_pc # "new" /\ Lower(l_init.provider) \in Backends /\ l_init.outcome # "ok") =>
        /\ l_pc = "ready"
        /\ llm.raised = ""
        /\ llm.provider = "none"
        /\ ~Active(llm)
        /\ llm.client = PyNone
        /\ (l_ret.called => l_ret.calls = 0 /\ l_ret.value = PyNone)

C9_Witness ==
    /\ l_pc = "ready"
    /\ l_init.provider = "OpenAI"
    /\ l_init.outcome = "Exception"
    /\ llm.provider = "none"
    /\ l_ret.called

\* C10: on every gateway a construction can leave, for every transcript and
\* template, process returns a text or none and raises nothing; a generation
\* call that raises gives none.
C10_ProcessIsTotal ==
    /\ l_pc # "raised"
    /\ (l_ret.called =>
          /\ l_ret.status = "return"
          /\ l_ret.value \in {PyNone, "", "enhanced"}
          /\ (l_ret.backend = "raise" => l_ret.value = PyNone))

C10_Witness ==
    /\ l_ret.called
    /\ llm.provider \in Backends
    /\ llm.client # PyNone
    /\ l_ret.backend = "raise"
    /\ l_ret.calls = 1
    /\ l_ret.value = PyNone

\* C11: a call of process on a gateway whose provider is "none" returns none,
\* makes no generation call, builds no prompt and leaves the gateway
\* (provider, model, credential, client) as it was.
C11_ProviderNoneIsNoOp ==
    [][(l_pc = "ready" /\ llm.provider = "none" /\ l_calls' = l_calls + 1) =>
          /\ l_ret'.called
          /\ l_ret'.status = "return"
          /\ l_ret'.value = PyNone
          /\ l_ret'.calls = 0
          /\ l_ret'.prompt = NoPrompt
          /\ llm' = llm
          /\ l_pc' = "ready"]_vars

\* process was called twice on a gateway that degraded at construction
C11_Witness ==
    /\ l_calls = 2
    /\ l_ret.called
    /\ llm.provider = "none"
    /\ l_init.provider = "claude"
    /\ l_init.outcome = "ImportError"
    /\ l_ret.template = "summary"
    /\ l_ret.backend = "text"

\* C12: for every item of a batch, process is invoked at most once and
\* issues at most one generation call; when that call raised, no second call
\* was made, process returned none and the item still succeeded.
C12_OneCallNoRetry ==
    \A k \in 1..Len(items) :
        /\ items[k].process_calls <= 1
        /\ items[k].generation_calls <= items[k].process_calls
        /\ (items[k].process_calls = 1 <=> "enhancement" \in items[k].started)
        /\ (items[k].backend = "raise" =>
              /\ items[k].generation_calls = 1
              /\ items[k].enhanced_text = PyNone
              /\ (Finished(k) => items[k].outcome = "ok"))

\* two items went through stage 3; the generation call of the first raised
C12_Witness ==
    /\ Len(items) >= 2
    /\ items[1].backend = "raise"
    /\ items[1].process_calls = 1
    /\ items[1].generation_calls = 1
    /\ items[2].backend = "text"
    /\ items[2].process_calls = 1
    /\ Finished(2)

----------------------------------------------------------------------------
(* Properties of the search engine *)

\* what the last call of index_transcripts found in its folder
Seen == listdir(folders, indexed.folder)

\* the file of that folder a record was built from
FileOf(record) ==
    CHOOSE f \in {Seen.files[i] : i \in 1..Len(Seen.files)} :
        f.name = record.file_path.name

\* C13: after any sequence of index_transcripts calls, every record of the
\* index is built from a file of the folder the last call named, no file
\* gives two records, and the index is empty when that folder does not exist.
C13_IndexHoldsLastCallOnly ==
    indexed.called =>
        /\ \A i \in 1..Len(transcripts) :
              /\ transcripts[i].file_path.folder = indexed.folder
              /\ path_exists(Seen.files, transcripts[i].file_path.name)
              /\ [transcripts[i] EXCEPT !.embedding = NoEmbedding] =
                     parse_transcript(FileOf(transcripts[i]).content,
                                      transcripts[i].file_path)
        /\ \A i, j \in 1..Len(transcripts) :
              transcripts[i].file_path = transcripts[j].file_path => i = j
        /\ (~Seen.exists => transcripts = <<>>)

\* an index with records was rebuilt from a folder that does not exist
C13_Witness ==
    /\ indexed.called
    /\ indexed.replaced
    /\ indexed.folder = "missing"
    /\ transcripts = <<>>

\* the files the last call parsed: every file of unique_files is opened, and
\* parsed unless reading it fails
ParsedFiles ==
    {indexed.unique_files[i] : i \in {j \in 1..Len(indexed.unique_files) :
                                        indexed.faults[j] # "read"}}

\* the records built from the file of this name
RecordsOf(name) == {i \in 1..Len(transcripts) : transcripts[i].file_path.name = name}

\* the source base name of a transcript file: its name without the suffix
BaseOf(name) == SubSeq(name, 1, Len(name) - 2)

NoFaults == \A i \in 1..Len(indexed.faults) : indexed.faults[i] = ""

\* C14: indexing yields at most one record per source base name; when both
\* <base>_transcript.txt and <base>_transcript.md exist the record is parsed
\* from the .txt file and the .md file is never parsed; when only one of them
\* exists that one is parsed.
C14_OneRecordPerBaseName ==
    (indexed.called /\ Seen.exists /\ NoFaults) =>
        \A k \in 1..Len(Seen.files) :
            LET base == BaseOf(Seen.files[k].name)
                txt == base \o TxtSuffix
                md == base \o MdSuffix
            IN  /\ Cardinality(RecordsOf(txt) \cup RecordsOf(md)) <= 1
                /\ IF path_exists(Seen.files, txt)
                   THEN txt \in ParsedFiles /\ md \notin ParsedFiles
                   ELSE md \in ParsedFiles

\* C15: a file whose indexing fails (reading it, or computing its embedding)
\* contributes no record, every other file of unique_files contributes one,
\* and when embeddings are available every record carries an embedding.
C15_FailedFileLeavesNoRecord ==
    indexed.called =>
        /\ \A i \in 1..Len(indexed.unique_files) :
              IF indexed.faults[i] # ""
              THEN RecordsOf(indexed.unique_files[i]) = {}
              ELSE RecordsOf(indexed.unique_files[i]) # {}
        /\ (embeddings_available =>
              \A i \in 1..Len(transcripts) : transcripts[i].embedding.present)

\* the records of the index built from files with this suffix
RecordsFrom(suffix) ==
    {i \in 1..Len(transcripts) : EndsWith(transcripts[i].file_path.name, suffix)}

\* C16: a record parsed from a format_txt file has the segments (start, end,
\* speaker, text, in order) and the language of the Transcript that was
\* formatted.
C16_TxtRoundTrip ==
    \A i \in RecordsFrom(TxtSuffix) :
        LET t == FileOf(transcripts[i]).transcript
        IN  /\ transcripts[i].segments = t.segments
            /\ transcripts[i].language = t.language

\* C17: a record parsed from a format_md file, of a Transcript persisted in
\* Markdown only, has the language and the segments that parsing the
\* format_txt text of the same Transcript gives.
C17_MdRecoversTxtRecord ==
    \A i \in RecordsFrom(MdSuffix) :
        LET f == FileOf(transcripts[i])
            t == f.transcript
            full == parse_transcript(
                        format_txt(BaseOf(f.name), t.language, t.duration, t.segments,
                                   t.full_text),
                        transcripts[i].file_path)
        IN  ~path_exists(Seen.files, BaseOf(f.name) \o TxtSuffix) =>
                /\ transcripts[i].language = full.language
                /\ transcripts[i].segments = full.segments

\* the lines of the trailing full-text block: those after the last line that
\* holds the "FULL TRANSCRIPT:" mark, the rule under it left out
FullTextBlock(content) ==
    LET lines == Split(content, NewLine)
        marks == {i \in 1..Len(lines) : Contains(lines[i], FullTranscriptMark)}
    IN  IF marks = {} THEN {}
        ELSE {lines[i] : i \in {j \in 1..Len(lines) :
                                    /\ \A m \in marks : m < j
                                    /\ lines[j] # Rule}}

\* C18: every non-blank line of the trailing full-text block, unless it is a
\* language header or a segment line, has its text in the record's full_text
\* whether or not the file has segment lines.
C18_FullTextBlockIsIndexed ==
    \A i \in RecordsFrom(TxtSuffix) :
        \A line \in FullTextBlock(FileOf(transcripts[i]).content) :
            (/\ Strip(line) # <<>>
             /\ ~StartsWith(line, <<"Detected Language", ":">>)
             /\ segment_match(line) = <<>>)
                => Contains(transcripts[i].full_text, Strip(line))

\* the two casings of each letter of the texts
CasePairs == {{"a", "A"}, {"b", "B"}}

\* x and y are the same but for the casing of their letters
SameButCasing(x, y) ==
    /\ Len(x) = Len(y)
    /\ \A i \in 1..Len(x) : x[i] = y[i] \/ {x[i], y[i]} \in CasePairs

\* text contains query under some casing of the two
ContainsInSomeCasing(text, query) ==
    \E i \in 1..(Len(text) - Len(query) + 1) :
        SameButCasing(SubSeq(text, i, i + Len(query) - 1), query)

\* the search lists this segment of this record among its matches
Listed(record, segment) ==
    \E j \in 1..Len(searched.results) :
        /\ searched.results[j].file_name = record.file_name
        /\ \E m \in 1..Len(searched.results[j].matches) :
              /\ searched.results[j].matches[m].text = segment.text
              /\ searched.results[j].matches[m].timestamp =
                     segment.start \o <<" ", "-", ">", " ">> \o segment.end
              /\ searched.results[j].matches[m].speaker = segment.speaker

\* C19: with case_sensitive = false a segment is matched whenever its text
\* contains the query under any casing of query or text; with
\* case_sensitive = true a segment in which the query occurs only in another
\* casing is never matched.
C19_CaseSensitivity ==
    searched.called =>
        \A i \in 1..Len(transcripts) :
            \A k \in 1..Len(transcripts[i].segments) :
                LET segment == transcripts[i].segments[k]
                IN  IF searched.case_sensitive
                    THEN Occurrences(segment.text, searched.query) = {}
                             => ~Listed(transcripts[i], segment)
                    ELSE ContainsInSomeCasing(segment.text, searched.query)
                             => Listed(transcripts[i], segment)

\* the query "aB" without case sensitivity has found the segment "Ab a"
C19_Witness ==
    /\ searched.called
    /\ ~searched.case_sensitive
    /\ searched.query = <<"a", "B">>
    /\ \E i \in 1..Len(transcripts) :
          \E k \in 1..Len(transcripts[i].segments) :
              /\ transcripts[i].segments[k].text = <<"A", "b", " ", "a">>
              /\ Listed(transcripts[i], transcripts[i].segments[k])

\* the records that have a segment whose text contains the query
Hits ==
    {i \in 1..Len(transcripts) :
        \E k \in 1..Len(transcripts[i].segments) :
            segment_matches(transcripts[i].segments[k], searched.query,
                            searched.case_sensitive)}

\* the j-th of them in index order
Hit(j) == CHOOSE i \in Hits : Cardinality({h \in Hits : h <= i}) = j

\* the texts of the segments of a record that contain the query, in order
RECURSIVE MatchingTexts(_)
MatchingTexts(segments) ==
    IF segments = <<>> THEN <<>>
    ELSE (IF segment_matches(Head(segments), searched.query, searched.case_sensitive)
          THEN <<Head(segments).text>> ELSE <<>>) \o MatchingTexts(Tail(segments))

\* C20: keyword_search returns one result per record that has a segment
\* containing the query and none for the others, in index order; a result
\* lists exactly the matching segments in segment order and match_count is
\* their number, at least 1.
C20_OneResultPerMatchingRecord ==
    searched.called =>
        /\ Len(searched.results) = Cardinality(Hits)
        /\ \A j \in 1..Len(searched.results) :
              LET result == searched.results[j]
                  record == transcripts[Hit(j)]
              IN  /\ result.file_name = record.file_name
                  /\ result.language = record.language
                  /\ [m \in 1..Len(result.matches) |-> result.matches[m].text]
                         = MatchingTexts(record.segments)
                  /\ result.match_count = Len(result.matches)
                  /\ result.match_count >= 1

\* of two records one is reported, with one of its two segments
C20_Witness ==
    /\ searched.called
    /\ searched.case_sensitive
    /\ searched.query = <<"a", "B">>
    /\ Len(transcripts) = 2
    /\ Len(searched.results) = 1
    /\ searched.results[1].match_count = 1
    /\ Len(transcripts[Hit(1)].segments) = 2

----------------------------------------------------------------------------
(* Properties of semantic search and question answering *)

\* C21: a call of semantic_search takes the embedding strategy when
\* embeddings are available, else the LLM strategy when a gateway with
\* provider != "none" exists, else keyword search; with embeddings it makes
\* no call of the gateway, without them no call of the embedding model
C21_StrictPriority ==
    semantic.called =>
        /\ semantic.strategy = IF embeddings_available THEN "embedding"
                               ELSE IF HasGateway THEN "llm" ELSE "keyword"
        /\ embeddings_available => semantic.llm_calls = 0
        /\ ~embeddings_available => semantic.encode_calls = 0

C21_Witness ==
    /\ semantic.called /\ embeddings_available /\ HasGateway
    /\ semantic.results # <<>>
    /\ semantic.encode_calls > 1

\* the records that were scored, and those scored above the threshold
Scored == {i \in 1..Len(transcripts) : transcripts[i].embedding.present}
Above == {i \in Scored : semantic.sims[i] > Threshold}

\* C22: the embedding search returns min(top_k, number of records above the
\* threshold) results, each a distinct record scored strictly above the
\* threshold, in non-increasing order of score, and no record left out
\* scores higher than one returned
C22_TopKAboveThreshold ==
    (semantic.called /\ semantic.strategy = "embedding") =>
        LET res == semantic.results
        IN  /\ Len(res) = IF semantic.top_k < Cardinality(Above)
                          THEN semantic.top_k ELSE Cardinality(Above)
            /\ \A j \in 1..Len(res) : res[j].similarity_score > Threshold
            /\ \A j, k \in 1..Len(res) :
                   j < k => res[j].similarity_score >= res[k].similarity_score
            /\ \E f \in [1..Len(res) -> Above] :
                   /\ \A j, k \in 1..Len(res) : f[j] = f[k] => j = k
                   /\ \A j \in 1..Len(res) :
                          /\ res[j].file_name = transcripts[f[j]].file_name
                          /\ res[j].similarity_score = semantic.sims[f[j]]
                   /\ \A i \in Above \ {f[j] : j \in 1..Len(res)} :
                          \A j \in 1..Len(res) :
                              semantic.sims[i] <= res[j].similarity_score

C22_Witness ==
    /\ semantic.called /\ semantic.strategy = "embedding"
    /\ Cardinality(Above) = 2
    /\ Len(semantic.results) = 1
    /\ semantic.sims[1] < semantic.results[1].similarity_score

\* C23: ask_question calls the gateway not once when no gateway is active
\* or the search finds no relevant record, and returns one of the two
\* fixed messages
C23_NoGatewayCallWithoutRecords ==
    (asked.called /\ (~HasGateway \/ ~asked.relevant)) =>
        /\ asked.llm_calls = 0
        /\ asked.value \in {NotEnabledMessage, NothingFoundMessage}

\* C24: when records were found and the answering call returned None,
\* ask_question returns a text and does not raise
C24_ErrorStringOnBackendFailure ==
    (asked.called /\ asked.relevant /\ asked.answer = PyNone) =>
        /\ asked.status = "return"
        /\ asked.value # PyNone

----------------------------------------------------------------------------
(* Properties of the search command line *)

Succeeds ==
    /\ cli_args.action \in {"index", "keyword", "semantic", "ask"}
    /\ cli_args.action = "index" \/ ~no_query(cli_args.query)
    /\ cli_exit = 0

Rejected ==
    cli_args.action # "index" /\
    (no_query(cli_args.query) \/
     cli_args.action \notin {"keyword", "semantic", "ask"})

\* C25: a run of the search command line for index, keyword, semantic or
\* ask leaves exactly one item on standard output, a JSON object; a run
\* with a missing query or an unknown action leaves a JSON error object on
\* standard error, no success object on standard output, and exits non-zero
C25_OneJsonObjectOnStdout ==
    s_pc = "done" =>
        /\ Succeeds => (Len(stdout) = 1 /\ stdout[1].kind = "json")
        /\ Rejected =>
               /\ \E i \in 1..Len(stderr) :
                      stderr[i].kind = "json" /\ stderr[i].key = "error"
               /\ \A i \in 1..Len(stdout) :
                      ~(stdout[i].kind = "json" /\ stdout[i].key = "success")
               /\ cli_exit \notin {0, NoExit}

----------------------------------------------------------------------------
(* Properties of the alignment: which turns give a segment *)

\* the turn has inside it a whisper segment whose text is not blank
HasSpokenText(turn) ==
    \E k \in 1..Len(whisper_segments) :
        /\ turn.start <= whisper_segments[k].start
        /\ whisper_segments[k].end <= turn.end
        /\ Strip(whisper_segments[k].text) # <<>>

\* start, end and speaker of the first n turns that have spoken text inside
RECURSIVE SpokenTurns(_)
SpokenTurns(n) ==
    IF n = 0 THEN <<>>
    ELSE IF HasSpokenText(turns[n])
         THEN Append(SpokenTurns(n - 1),
                     [start |-> format_timestamp(turns[n].start),
                      end |-> format_timestamp(turns[n].end),
                      speaker |-> turns[n].speaker])
         ELSE SpokenTurns(n - 1)

AlignedStamps ==
    [i \in 1..Len(segments_with_speakers) |->
        [start |-> segments_with_speakers[i].start,
         end |-> segments_with_speakers[i].end,
         speaker |-> segments_with_speakers[i].speaker]]

\* C26: in the diarized path the output holds, in turn order, one segment
\* for each turn that has inside it a whisper segment with non-blank text,
\* carrying that turn's start, end and speaker, and no other segment
C26_OneSegmentPerSpokenTurn ==
    Diarized => AlignedStamps = SpokenTurns(turn_i)

C26_Witness ==
    /\ Diarized
    /\ a_pc = "done"
    /\ Len(turns) = 2
    /\ Len(segments_with_speakers) = 1
    /\ \E t \in 1..Len(turns) :
           /\ ContainedSegments(turns[t]) # <<>>
           /\ ~HasSpokenText(turns[t])

\* the text of whisper segment k is visible in an output segment
Appears(k, seg) ==
    /\ Strip(whisper_segments[k].text) # <<>>
    /\ Contains(seg.text, Strip(whisper_segments[k].text))

Appearances(k) ==
    Cardinality({i \in 1..Len(segments_with_speakers) :
                    Appears(k, segments_with_speakers[i])})

\* the turns consumed so far that have whisper segment k inside
ContainingTurns(k) ==
    {t \in 1..turn_i : /\ turns[t].start <= whisper_segments[k].start
                       /\ whisper_segments[k].end <= turns[t].end}

\* no other whisper segment has the same text
Distinctive(k) ==
    \A j \in 1..Len(whisper_segments) :
        j # k => Strip(whisper_segments[j].text) # Strip(whisper_segments[k].text)

----------------------------------------------------------------------------
(* Properties of main(): loading the engine, and the files of the items *)

\* an attempt on CPU failed
CpuLoadFailed ==
    \E k \in 1..Len(load_attempts) :
        load_attempts[k].device = "cpu" /\ load_attempts[k].outcome # "ok"

\* C28: the engine is loaded in at most two attempts, the first on CUDA if
\* available, else on MPS if available, else on CPU; there is a second only
\* after a first that failed on a device other than CPU, and it is on CPU;
\* when an attempt on CPU fails the error leaves main() and no item is ever
\* processed; no attempt follows one that succeeded
C28_AtMostTwoLoadAttempts ==
    /\ Len(load_attempts) <= 2
    /\ Len(load_attempts) >= 1 =>
           load_attempts[1].device = IF torch.cuda THEN "cuda"
                                     ELSE IF torch.mps THEN "mps" ELSE "cpu"
    /\ Len(load_attempts) = 2 =>
           /\ load_attempts[2].device = "cpu"
           /\ load_attempts[1].device # "cpu"
           /\ load_attempts[1].outcome # "ok"
    /\ CpuLoadFailed =>
           /\ b_pc = "aborted"
           /\ propagating = load_attempts[Len(load_attempts)].outcome
           /\ items = <<>>
    /\ \A k \in 1..Len(load_attempts) :
           load_attempts[k].outcome = "ok" => k = Len(load_attempts)
    /\ b_pc \notin {"load", "fallback", "aborted"} =>
           /\ load_attempts # <<>>
           /\ load_attempts[Len(load_attempts)].outcome = "ok"
           /\ whisper_model = load_attempts[Len(load_attempts)].device

C28_Witness ==
    /\ Len(load_attempts) = 2
    /\ load_attempts[1].device = "mps"
    /\ load_attempts[2].outcome = "ok"
    /\ b_pc = "done"
    /\ Len(items) = 2

\* the files an item has written: those it has left in the output folder
\* and the temporary WAV of its transcription stage
OutputPaths(i) ==
    {output_path(video_files[i].name, k[2]) : k \in {f \in files : f[1] = i}}
    \cup (IF "transcription" \in items[i].started
          THEN {output_path(video_files[i].name, "wav")} ELSE {})

\* C29: two items of a batch whose base names differ write disjoint sets
\* of files
C29_OutputPathsDisjoint ==
    \A i, j \in 1..Len(items) :
        (i # j /\ video_files[i].name # video_files[j].name) =>
            OutputPaths(i) \cap OutputPaths(j) = {}

----------------------------------------------------------------------------
(* Properties of the gateway after construction *)

\* C30: a constructed gateway has provider "none", or a supported provider
\* and a client
C30_ProviderNoneOrClientReady ==
    l_pc = "ready" =>
        \/ llm.provider = "none"
        \/ (llm.provider \in Backends /\ llm.client # PyNone)

============================================================================
